---------------------------- MODULE Spec2Model ----------------------------
(***************************************************************************)
(* Model of the 4DS codec of blender-ls3d-tools: the primitive transcoder  *)
(* (io_utils.py), the material codec, the object record codec and the      *)
(* decode / encode orchestrators (import_4ds.py, export_4ds.py,            *)
(* _4ds_utils.py).                                                         *)
(*                                                                         *)
(* Streams are sequences of bytes.  A float32 is carried as its 32-bit     *)
(* pattern (a number below 2^31), so that packing and unpacking are real   *)
(* conversions to and from little-endian bytes.                            *)
(***************************************************************************)
EXTENDS Integers, Sequences, FiniteSets, TLC

VARIABLES
    primKind,     \* harness: which primitive is exercised ("vec3", "quat", "face", "mat4", "string")
    primOrig,     \* harness: the value the run started from
    primSide,     \* harness: "mem" when the current value is in memory, "stream" when it is bytes, else the exception
    primVal,      \* harness: the current value (in-memory components or stream bytes)
    primOps,      \* harness: the primitive calls applied so far
    matBl,        \* material harness: the Blender material (bl_mat and its ls3d_props)
    matOrig,      \* material harness: the material the run started from
    matFile,      \* material harness: the bytes of the one-entry material table
    matWritten,   \* material harness: the fields write_ls3d_material emitted, in order
    matLib,       \* material harness: Libraries.Materials after read_materials
    matCur,       \* material harness: the stream cursor after read_materials
    matOps,       \* material harness: the calls applied so far
    matFirst,     \* material harness: the material rebuilt by the first round trip
    decIn,        \* import_4ds: where the file came from (base file and damage)
    decFile,      \* import_4ds: the bytes of the file at filepath
    decCur,       \* import_4ds: the IStream cursor (position, first error, reads so far)
    decPc,        \* import_4ds: the statement the pass stands before
    decLib,       \* Libraries.Materials / Objects / Joints and which are assigned
    decScene,     \* the Blender data the pass has created
    expScene,     \* export_4ds: the objects of the Blender scene, in all_objects order
    expPc,        \* export_4ds: the statement the pass stands before
    expLib,       \* export_4ds: Libraries.Materials / Objects / MeshInstances(Parents)
    expOut,       \* export_4ds: the bytes written to the file so far
    expMarks,     \* export_4ds: per object written, the object and the offsets its record spans
    expErr,       \* export_4ds: the exception that ended the pass, "" without one
    ls3d_props,   \* slot operators: the slot lists of the active object and their active indices
    slotIds       \* slot operators: per list, the slots add() has made so far

primVars == <<primKind, primOrig, primSide, primVal, primOps>>
matVars == <<matBl, matOrig, matFile, matWritten, matLib, matCur, matOps, matFirst>>

decVars == <<decIn, decFile, decCur, decPc, decLib, decScene>>
expVars == <<expScene, expPc, expLib, expOut, expMarks, expErr>>
slotVars == <<ls3d_props, slotIds>>
vars == <<primVars, matVars, decVars, expVars, slotVars>>

\* what the actions of one part leave alone
nonPrimVars == <<matVars, decVars, expVars, slotVars>>
nonMatVars == <<primVars, decVars, expVars, slotVars>>
nonDecVars == <<primVars, matVars, expVars, slotVars>>
nonExpVars == <<primVars, matVars, decVars, slotVars>>
nonSlotVars == <<primVars, matVars, decVars, expVars>>

\* the parts a specification does not exercise stay idle
PrimIdle ==
    /\ primKind = "idle" /\ primOrig = <<>> /\ primSide = "idle"
    /\ primVal = <<>> /\ primOps = <<>>

MatIdle ==
    /\ matBl = <<>> /\ matOrig = <<>> /\ matFile = <<>> /\ matWritten = <<>>
    /\ matLib = <<>> /\ matCur = <<>> /\ matOps = <<>> /\ matFirst = <<>>

DecIdle ==
    /\ decIn = <<>> /\ decFile = <<>> /\ decCur = <<>> /\ decPc = "idle"
    /\ decLib = <<>> /\ decScene = <<>>

ExpIdle ==
    /\ expScene = <<>> /\ expPc = "idle" /\ expLib = <<>> /\ expOut = <<>>
    /\ expMarks = <<>> /\ expErr = ""

SlotIdle == ls3d_props = <<>> /\ slotIds = <<>>

----------------------------------------------------------------------------
(* Bytes                                                                   *)

\* struct.pack("<B/H/I/f", n): the k little-endian bytes of n
LE(n, k) == [i \in 1..k |-> (n \div (256 ^ (i - 1))) % 256]

\* struct.unpack of one little-endian scalar
RECURSIVE FromLE(_)
FromLE(bs) == IF bs = <<>> THEN 0 ELSE Head(bs) + 256 * FromLE(Tail(bs))

RECURSIVE Flatten(_)
Flatten(ss) == IF ss = <<>> THEN <<>> ELSE Head(ss) \o Flatten(Tail(ss))

\* struct.pack("<Nf", *xs) / ("<NH", *xs): scalars of width w in order
Pack(xs, w) == Flatten([i \in 1..Len(xs) |-> LE(xs[i], w)])

\* struct.unpack("<Nf", bytes): n scalars of width w
Unpack(bs, n, w) == [i \in 1..n |-> FromLE(SubSeq(bs, (i - 1) * w + 1, i * w))]

----------------------------------------------------------------------------
(* Primitive transcoder (io_utils.py)                                      *)

read_vector3(bs) ==
    LET vec == Unpack(bs, 3, 4) IN <<vec[1], vec[3], vec[2]>>

\* faulty variant: the scalar part moved, the y/z exchange forgotten
read_quaternion_noswap(bs) ==
    LET quat == Unpack(bs, 4, 4) IN <<quat[4], quat[1], quat[2], quat[3]>>

read_quaternion(bs) ==
    LET quat == Unpack(bs, 4, 4) IN <<quat[4], quat[1], quat[3], quat[2]>>

read_face(bs) ==
    LET face == Unpack(bs, 3, 2) IN <<face[3], face[2], face[1]>>

\* Matrix((row, row, row, row)) followed by transpose()
read_matrix4x4(bs) ==
    LET rows == [i \in 1..4 |-> Unpack(SubSeq(bs, (i - 1) * 16 + 1, i * 16), 4, 4)]
    IN  [i \in 1..4 |-> [j \in 1..4 |-> rows[j][i]]]

write_vector3(vec) == Pack(<<vec[1], vec[3], vec[2]>>, 4)

write_vector4(vec) == Pack(<<vec[1], vec[3], vec[2], 0>>, 4)

\* faulty variant: the scalar part moved, the y/z exchange forgotten
write_quaternion_noswap(quat) == Pack(<<quat[2], quat[3], quat[4], quat[1]>>, 4)

write_quaternion(quat) == Pack(<<quat[2], quat[4], quat[3], quat[1]>>, 4)

write_face(face) == Pack(<<face[3], face[2], face[1]>>, 2)

write_matrix4x4(mat) ==
    LET new_mat == [i \in 1..4 |-> [j \in 1..4 |-> mat[j][i]]]
    IN  Pack(new_mat[1] \o new_mat[2] \o new_mat[3] \o new_mat[4], 4)

----------------------------------------------------------------------------
(* IStream (io_utils.py): a cursor over the bytes of a file.  A failed read *)
(* raises; the cursor keeps the first error and every later call is a      *)
(* no-op, as the exception leaves the function.                            *)

Cursor(p) == [pos |-> p, err |-> "", log |-> <<>>]

\* Body applied to the value of v
Let(v, Body(_)) == CHOOSE r \in {Body(x) : x \in {v}} : TRUE

\* faulty variant: a short read yields zeros instead of raising
read_lenient(f, c, name, n) ==
    Let(<<c, n>>, LAMBDA a :
        IF a[1].err # "" THEN a[1]
        ELSE [a[1] EXCEPT !.pos = @ + a[2], !.log = Append(@, <<name, a[2]>>)])

\* IStream.read(fmt) with calcsize(fmt) = n: struct.unpack raises struct.error
\* when the stream holds fewer than n bytes at the cursor
read(f, c, name, n) ==
    Let(<<c, n>>, LAMBDA a :
        IF a[1].err # "" THEN a[1]
        ELSE IF a[2] > 0 /\ a[1].pos + a[2] > Len(f) THEN [a[1] EXCEPT !.err = "struct.error"]
        ELSE [a[1] EXCEPT !.pos = @ + a[2], !.log = Append(@, <<name, a[2]>>)])

\* file.stream.seek(n, 1): never fails, also beyond the end of the file
seek(c, name, n) ==
    Let(c, LAMBDA a :
        IF a.err # "" THEN a
        ELSE [a EXCEPT !.pos = @ + n, !.log = Append(@, <<name, n>>)])

\* raise <kind> (kind "": nothing is raised)
raise(c, kind) == Let(c, LAMBDA a : IF a.err # "" THEN a ELSE [a EXCEPT !.err = kind])

\* the bytes a successful read of n bytes at position p returned
BytesAt(f, p, n) == IF p + n <= Len(f) THEN SubSeq(f, p + 1, p + n) ELSE [i \in 1..n |-> 0]

UIntAt(f, p, n) == FromLE(BytesAt(f, p, n))

\* str(bytes, 'ascii', errors='ignore').strip(chr(0))
RECURSIVE StripNul(_)
StripNul(bs) ==
    IF bs = <<>> THEN bs
    ELSE IF Head(bs) = 0 THEN StripNul(Tail(bs))
    ELSE IF bs[Len(bs)] = 0 THEN StripNul(SubSeq(bs, 1, Len(bs) - 1))
    ELSE bs

read_string(bs) == StripNul(SelectSeq(bs, LAMBDA b : b < 128))

\* IStream.read_presized_string: "<B" length, then that many bytes
read_presized_string(f, c, name) ==
    Let(c, LAMBDA a : read(f, read(f, a, name, 1), name, UIntAt(f, a.pos, 1)))

StringAt(f, p) == read_string(BytesAt(f, p + 1, UIntAt(f, p, 1)))

\* faulty variant: the length is written modulo 256
write_presized_string_wrapped(string) ==
    [bytes |-> LE(Len(string), 1) \o string, err |-> ""]

\* OStream.write_presized_string: the bytes written and the exception raised.
\* self.write("<B", len(string)) packs before it writes: struct.pack raises
\* struct.error for a length above 255 and nothing reaches the stream
write_presized_string(string) ==
    IF Len(string) > 255 THEN [bytes |-> <<>>, err |-> "struct.error"]
    ELSE [bytes |-> LE(Len(string), 1) \o string, err |-> ""]

----------------------------------------------------------------------------
(* Material codec (_4ds_utils.py LS3DMaterial, import_4ds.py read_materials) *)

\* a 32-bit flag word is the set of its bit positions
MaterialFlag ==
    [DIFFUSE_MAPPING |-> {18}, ENVIRONMENT_MAPPING |-> {19}, ENVIRONMENT_BASE |-> {8},
     ENVIRONMENT_MULTIPLY |-> {9}, ENVIRONMENT_ADD |-> {10},
     ENVIRONMENT_REFL_COMP_Z |-> {12}, ENVIRONMENT_REFL_PROJ_Z |-> {13},
     ENVIRONMENT_REFL_PROJ_Y |-> {14}, ADDITIONAL_EFFECT |-> {15},
     ALPHA_MAPPING |-> {30}, COLOR_KEYING |-> {29}, DIFFUSE_ANIMATED |-> {26},
     DIFFUSE_ALPHA |-> {24}, NO_BACKFACE_CULLING |-> {28}, GENERATE_MIPMAPS |-> {23},
     ADDITIVE_BLENDING |-> {31}, COLORING |-> {27}]

RECURSIVE BitSum(_, _)
BitSum(bits, base) ==
    IF bits = {} THEN 0
    ELSE LET b == CHOOSE x \in bits : TRUE IN 2 ^ (b - base) + BitSum(bits \ {b}, base)

\* struct.pack("<I", flags)
PackFlags(flags, n) ==
    [k \in 1..n |-> BitSum({b \in flags : b \div 8 = k - 1}, 8 * (k - 1))]

\* struct.unpack of a flag word of n bytes
FlagsAt(f, p, n) ==
    LET bs == BytesAt(f, p, n)
    IN  {b \in 0..(8 * n - 1) : (bs[(b \div 8) + 1] \div (2 ^ (b % 8))) % 2 = 1}

\* LS3DMaterial.has_flag
has_flag(flags, flag) == flag \subseteq flags

\* str.upper() on ASCII bytes
Upper(string) == [i \in 1..Len(string) |-> IF string[i] \in 97..122 THEN string[i] - 32 ELSE string[i]]

\* faulty variant: the alpha map name is written whenever alpha_texture is set
alpha_name_written_always(props) == props.alpha_texture

\* write_ls3d_material line 362: the alpha map name is written
alpha_name_written(props) == props.alpha_texture /\ ~props.diffuse_alpha

\* faulty variant: the COLOR_KEYING bit is never derived
write_flags_common_nokeying(m) ==
    LET props == m.ls3d_props
        F == MaterialFlag
    IN  {0}
        \cup (IF ~m.use_backface_culling THEN F.NO_BACKFACE_CULLING ELSE {})
        \cup (IF props.mipmapping THEN F.GENERATE_MIPMAPS ELSE {})
        \cup (IF props.coloring THEN F.COLORING ELSE {})
        \cup (IF props.additive_blending THEN F.ADDITIVE_BLENDING ELSE {})

\* write_ls3d_material lines 293-307: flags = 1 and the bits of the plain properties
write_flags_common(m) ==
    LET props == m.ls3d_props
        F == MaterialFlag
    IN  {0}
        \cup (IF ~m.use_backface_culling THEN F.NO_BACKFACE_CULLING ELSE {})
        \cup (IF props.mipmapping THEN F.GENERATE_MIPMAPS ELSE {})
        \cup (IF props.coloring THEN F.COLORING ELSE {})
        \cup (IF props.additive_blending THEN F.ADDITIVE_BLENDING ELSE {})
        \cup (IF props.color_keying THEN F.COLOR_KEYING ELSE {})

\* write_ls3d_material lines 312-334: the texture bits, derived only when the
\* node tree holds the LS3D shader node
write_flags(m) ==
    LET props == m.ls3d_props
        F == MaterialFlag
    IN  write_flags_common(m)
        \cup (IF ~m.has_shader THEN {} ELSE
                (IF props.diffuse_texture THEN F.DIFFUSE_MAPPING ELSE {})
           \cup (IF props.diffuse_texture /\ props.texture_animation
                    THEN F.DIFFUSE_ANIMATED ELSE {})
           \cup (IF props.alpha_texture THEN F.ALPHA_MAPPING ELSE {})
           \cup (IF props.env_texture THEN F.ENVIRONMENT_MAPPING ELSE {})
           \cup (IF props.diffuse_alpha THEN F.ALPHA_MAPPING \cup F.DIFFUSE_ALPHA ELSE {})
           \cup (IF props.env_base_mixing THEN F.ENVIRONMENT_BASE ELSE {})
           \cup (IF props.env_mix_type = "ADD" THEN F.ENVIRONMENT_ADD
                 ELSE IF props.env_mix_type = "MULTIPLY" THEN F.ENVIRONMENT_MULTIPLY
                 ELSE {}))

\* export_texname: the upper-cased base name of the node's image, "" without one
export_texname(image) == write_presized_string(Upper(image)).bytes

\* LS3DMaterial.write_ls3d_material: the fields written, in order, each <<name, bytes>>
write_ls3d_material(m) ==
    LET props == m.ls3d_props
        anm == props.anm_props
        fixed == <<
            <<"flags", PackFlags(write_flags(m), 4)>>,
            <<"colors", Pack(props.ambient_color \o m.diffuse_color
                             \o props.specular_color
                             \o (IF m.has_shader THEN m.emission ELSE <<0, 0, 0, 0>>), 4)>>,
            <<"gloss_opacity", Pack(IF m.has_shader THEN <<m.metallic, m.alpha>>
                                                    ELSE <<1103626240, 1065353216>>, 4)>> >>
        env == IF props.env_texture
               THEN << <<"env_ratio", Pack(<<props.env_ratio>>, 4)>>,
                       <<"env_map", export_texname(m.images.env)>> >>
               ELSE <<>>
        diff == IF props.diffuse_texture
                THEN << <<"diff_map", export_texname(m.images.diff)>> >> ELSE <<>>
        alpha == IF alpha_name_written(props)
                 THEN << <<"alpha_map", export_texname(m.images.alpha)>> >> ELSE <<>>
        anim == IF props.texture_animation /\ props.diffuse_texture
                THEN << <<"animation", LE(anm.frame_count, 4) \o LE(anm.unknown_a, 2)
                                       \o LE(anm.frame_time, 4) \o LE(anm.unknown_b, 4)
                                       \o LE(anm.unknown_c, 4)>> >>
                ELSE <<>>
        no_tex == env = <<>> /\ diff = <<>> /\ alpha = <<>>
    IN  IF m.has_shader
        THEN fixed \o env \o diff \o alpha \o anim
             \o (IF no_tex THEN << <<"placeholder", LE(0, 1)>> >> ELSE <<>>)
        ELSE fixed \o << <<"placeholder", LE(0, 1)>> >>

\* the bytes of a sequence of written fields
FieldBytes(fields) == Flatten([i \in 1..Len(fields) |-> fields[i][2]])

\* the <<name, size>> of a sequence of written fields
FieldSizes(fields) == [i \in 1..Len(fields) |-> <<fields[i][1], Len(fields[i][2])>>]

None == <<>>

\* read_materials, the body of the loop: one LS3DMaterial read at cursor c
read_material(f, c0) ==
    Let(c0, LAMBDA c :
    LET F == MaterialFlag
        flags == FlagsAt(f, c.pos, 4)
        env == has_flag(flags, F.ENVIRONMENT_MAPPING)
        diff == has_flag(flags, F.DIFFUSE_MAPPING)
        alpha == has_flag(flags, F.ALPHA_MAPPING) /\ ~has_flag(flags, F.DIFFUSE_ALPHA)
        anim == has_flag(flags, F.DIFFUSE_ANIMATED)
        no_map == ~env /\ ~diff /\ ~alpha
        colors == Unpack(BytesAt(f, c.pos + 4, 64), 16, 4)
    IN  Let(read(f, read(f, read(f, c, "flags", 4), "colors", 64), "gloss_opacity", 8),
            LAMBDA c3 :
        Let(IF env THEN read_presized_string(f, read(f, c3, "env_ratio", 4), "env_map")
            ELSE c3, LAMBDA c4 :
        Let(IF diff THEN read_presized_string(f, c4, "diff_map") ELSE c4, LAMBDA c5 :
        Let(IF alpha THEN read_presized_string(f, c5, "alpha_map") ELSE c5, LAMBDA c6 :
        [c |-> LET c7 == IF anim THEN read(f, c6, "animation", 18) ELSE c6
               IN  IF no_map THEN read_presized_string(f, c7, "placeholder") ELSE c7,
         mat |-> [flags |-> flags,
                  ambient_color |-> SubSeq(colors, 1, 4),
                  diffuse_color |-> SubSeq(colors, 5, 8),
                  specular_color |-> SubSeq(colors, 9, 12),
                  emission_color |-> SubSeq(colors, 13, 16),
                  glossiness |-> UIntAt(f, c.pos + 68, 4),
                  opacity |-> UIntAt(f, c.pos + 72, 4),
                  env_overlay_ratio |-> IF env THEN UIntAt(f, c3.pos, 4) ELSE 0,
                  env_map |-> IF env THEN StringAt(f, c3.pos + 4) ELSE None,
                  diff_map |-> IF diff THEN StringAt(f, c4.pos) ELSE None,
                  alpha_map |-> IF alpha THEN StringAt(f, c5.pos) ELSE None,
                  animation |-> IF anim
                                THEN [frame_count |-> UIntAt(f, c6.pos, 4),
                                      unk0 |-> UIntAt(f, c6.pos + 4, 2),
                                      frame_time |-> UIntAt(f, c6.pos + 6, 4),
                                      unk1 |-> UIntAt(f, c6.pos + 10, 4),
                                      unk2 |-> UIntAt(f, c6.pos + 14, 4)]
                                ELSE None]])))))

RECURSIVE read_materials_loop(_, _, _, _)
read_materials_loop(f, c, n, mats) ==
    Let(<<c, n, mats>>, LAMBDA a :
        IF a[2] = 0 \/ a[1].err # "" THEN [c |-> a[1], Materials |-> a[3]]
        ELSE Let(read_material(f, a[1]), LAMBDA r :
                 read_materials_loop(f, r.c, a[2] - 1,
                                     IF r.c.err = "" THEN Append(a[3], r.mat) ELSE a[3])))

\* read_materials: Libraries.Materials = [], the count, then each material
read_materials(f, c0) ==
    Let(c0, LAMBDA c :
        Let(read(f, c, "mat_count", 2), LAMBDA c1 :
            read_materials_loop(f, c1, IF c1.err = "" THEN UIntAt(f, c.pos, 2) ELSE 0, <<>>)))

\* IntProperty(min=1): an assigned value below the minimum is clamped
ClampMin1(v) == IF v < 1 THEN 1 ELSE v

\* LS3DAnimatedMapProperties defaults
AnmDefaults == [frame_count |-> 1, frame_time |-> 1000,
                unknown_a |-> 0, unknown_b |-> 0, unknown_c |-> 0]

\* LS3DMaterial.create_bl_mat: the Blender material built from a decoded one
\* (a colour keeps its first three components and gets alpha 1.0; the image of
\* a texture node is carried as the file name load_texture was asked for)
create_bl_mat(ls) ==
    LET F == MaterialFlag
        one == 1065353216
        env == has_flag(ls.flags, F.ENVIRONMENT_MAPPING)
        anm == has_flag(ls.flags, F.DIFFUSE_ANIMATED)
        diffuse == SubSeq(ls.diffuse_color, 1, 3) \o <<one>>
    IN  [use_backface_culling |-> ~has_flag(ls.flags, F.NO_BACKFACE_CULLING),
         has_shader |-> TRUE,
         diffuse_color |-> diffuse,
         emission |-> SubSeq(ls.emission_color, 1, 3) \o <<one>>,
         alpha |-> ls.opacity,
         metallic |-> ls.glossiness,
         images |-> [diff |-> IF has_flag(ls.flags, F.DIFFUSE_MAPPING) THEN ls.diff_map ELSE None,
                     alpha |-> IF has_flag(ls.flags, F.ALPHA_MAPPING)
                                  /\ ~has_flag(ls.flags, F.DIFFUSE_ALPHA)
                               THEN ls.alpha_map ELSE None,
                     env |-> IF env THEN ls.env_map ELSE None],
         ls3d_props |->
           [mipmapping |-> has_flag(ls.flags, F.GENERATE_MIPMAPS),
            coloring |-> has_flag(ls.flags, F.COLORING),
            additive_blending |-> has_flag(ls.flags, F.ADDITIVE_BLENDING),
            color_keying |-> has_flag(ls.flags, F.COLOR_KEYING),
            diffuse_alpha |-> has_flag(ls.flags, F.DIFFUSE_ALPHA),
            diffuse_texture |-> has_flag(ls.flags, F.DIFFUSE_MAPPING),
            alpha_texture |-> has_flag(ls.flags, F.ALPHA_MAPPING),
            env_texture |-> env,
            ambient_color |-> SubSeq(ls.ambient_color, 1, 3) \o <<one>>,
            specular_color |-> SubSeq(ls.specular_color, 1, 3) \o <<one>>,
            env_ratio |-> IF env THEN ls.env_overlay_ratio ELSE 1056964608,
            env_base_mixing |-> env /\ has_flag(ls.flags, F.ENVIRONMENT_BASE),
            env_mix_type |->
                IF ~env THEN "NONE"
                ELSE IF has_flag(ls.flags, F.ENVIRONMENT_ADD) THEN "ADD"
                ELSE IF has_flag(ls.flags, F.ENVIRONMENT_MULTIPLY) THEN "MULTIPLY"
                ELSE "NONE",
            env_projection_axis |->
                IF ~env THEN "NONE"
                ELSE IF has_flag(ls.flags, F.ENVIRONMENT_REFL_PROJ_Y \cup F.ENVIRONMENT_REFL_PROJ_Z)
                     THEN "YZ"
                ELSE IF has_flag(ls.flags, F.ENVIRONMENT_REFL_PROJ_Y) THEN "Y"
                ELSE IF has_flag(ls.flags, F.ENVIRONMENT_REFL_PROJ_Z) THEN "Z"
                ELSE "NONE",
            texture_animation |-> anm,
            anm_props |-> IF anm
                          THEN [frame_count |-> ClampMin1(ls.animation.frame_count),
                                frame_time |-> ClampMin1(ls.animation.frame_time),
                                unknown_a |-> ls.animation.unk0,
                                unknown_b |-> ls.animation.unk1,
                                unknown_c |-> ls.animation.unk2]
                          ELSE AnmDefaults]]

----------------------------------------------------------------------------
(* Harness of the material codec: one material written by                  *)
(* write_ls3d_material behind a count of 1, read back by read_materials    *)
(* and rebuilt by create_bl_mat, twice over.                               *)

\* "A.bmp", "b.TGA"
TexNames == [diff |-> <<65, 46, 98, 109, 112>>, alpha |-> <<98, 46, 84, 71, 65>>,
             env |-> <<>>]

\* a Blender material as a user can set it up
BlMaterial(cull, sh, mix, b) ==
      [use_backface_culling |-> cull, has_shader |-> sh,
       diffuse_color |-> <<1065353216, 0, 1056964608, 1065353216>>,
       emission |-> <<0, 0, 0, 1065353216>>,
       alpha |-> 1065353216, metallic |-> 1056964608,
       images |-> TexNames,
       ls3d_props |->
         [mipmapping |-> b[1], coloring |-> b[2], additive_blending |-> b[3],
          color_keying |-> b[4], diffuse_alpha |-> b[5], diffuse_texture |-> b[6],
          alpha_texture |-> b[7], env_texture |-> b[8], env_base_mixing |-> b[9],
          texture_animation |-> b[10],
          ambient_color |-> <<1056964608, 1056964608, 0, 1065353216>>,
          specular_color |-> <<0, 1065353216, 0, 1065353216>>,
          env_ratio |-> 1056964608, env_mix_type |-> mix, env_projection_axis |-> "NONE",
          anm_props |-> [frame_count |-> 4, frame_time |-> 250,
                         unknown_a |-> 0, unknown_b |-> 7, unknown_c |-> 0]]]

BlMaterials ==
    { BlMaterial(cull, sh, mix, b) :
        cull \in BOOLEAN, sh \in BOOLEAN, mix \in {"NONE", "MULTIPLY", "ADD"},
        b \in [1..10 -> BOOLEAN] }

\* bits of the flag word that write_ls3d_material never sets
ReservedBits == {{1, 11}, {5, 13, 15, 16, 25}}

\* round trips (write, read, create) of one run
MaxMatRounds == 2

MatInit ==
    /\ matBl \in BlMaterials
    /\ matOrig = matBl
    /\ matFile = <<>>
    /\ matWritten = <<>>
    /\ matLib = <<>>
    /\ matCur = Cursor(0)
    /\ matOps = <<>>
    /\ matFirst = <<>>
    /\ PrimIdle /\ DecIdle /\ ExpIdle /\ SlotIdle

MatLast == IF matOps = <<>> THEN "" ELSE matOps[Len(matOps)]

\* export_4ds lines 371-374 for a table of one material
MatWrite ==
    /\ MatLast \in {"", "create"}
    /\ Len(matOps) < MaxMatRounds * 4 - 3
    /\ matWritten' = write_ls3d_material(matBl)
    /\ matFile' = LE(1, 2) \o FieldBytes(matWritten')
    /\ matOps' = Append(matOps, "write")
    /\ matOrig' = IF matOps = <<>> THEN matOrig ELSE <<>>
    /\ UNCHANGED <<matBl, matLib, matCur, matFirst, nonMatVars>>

\* a file whose flag word carries reserved bits besides the written ones
MatReserve ==
    /\ matOps = <<"write">>
    /\ \E r \in ReservedBits :
          matFile' = SubSeq(matFile, 1, 2) \o PackFlags(FlagsAt(matFile, 2, 4) \cup r, 4)
                     \o SubSeq(matFile, 7, Len(matFile))
    /\ matOps' = Append(matOps, "reserve")
    /\ UNCHANGED <<matBl, matOrig, matWritten, matLib, matCur, matFirst, nonMatVars>>

\* read_materials
MatRead ==
    /\ MatLast \in {"write", "reserve"}
    /\ LET r == read_materials(matFile, Cursor(0))
       IN  /\ matLib' = r.Materials
           /\ matCur' = r.c
    /\ matOps' = Append(matOps, "read")
    /\ UNCHANGED <<matBl, matOrig, matFile, matWritten, matFirst, nonMatVars>>

\* import_4ds lines 160-161: create_bl_mat for the material read
MatCreate ==
    /\ MatLast = "read"
    /\ Len(matLib) = 1
    /\ matBl' = create_bl_mat(matLib[1])
    /\ matOps' = Append(matOps, "create")
    /\ matFirst' = IF matFirst = <<>> THEN matBl' ELSE matFirst
    /\ UNCHANGED <<matOrig, matFile, matWritten, matLib, matCur, nonMatVars>>

MatNext == MatWrite \/ MatReserve \/ MatRead \/ MatCreate

SpecMat == MatInit /\ [][MatNext]_vars

\* the texture / blend properties of a Blender material
MatProps(m) ==
    [diffuse_texture |-> m.ls3d_props.diffuse_texture,
     alpha_texture |-> m.ls3d_props.alpha_texture,
     env_texture |-> m.ls3d_props.env_texture,
     diffuse_alpha |-> m.ls3d_props.diffuse_alpha,
     texture_animation |-> m.ls3d_props.texture_animation,
     env_base_mixing |-> m.ls3d_props.env_base_mixing,
     env_mix_type |-> m.ls3d_props.env_mix_type,
     use_backface_culling |-> m.use_backface_culling,
     mipmapping |-> m.ls3d_props.mipmapping,
     coloring |-> m.ls3d_props.coloring,
     additive_blending |-> m.ls3d_props.additive_blending,
     color_keying |-> m.ls3d_props.color_keying]

\* the combinations the flag word can carry
MatCarried(m) ==
    /\ m.has_shader
    /\ m.ls3d_props.diffuse_alpha => m.ls3d_props.alpha_texture
    /\ m.ls3d_props.texture_animation => m.ls3d_props.diffuse_texture
    /\ ~m.ls3d_props.env_texture =>
          (~m.ls3d_props.env_base_mixing /\ m.ls3d_props.env_mix_type = "NONE")

\* C7 as stated: for every combination of the properties, write_ls3d_material
\* followed by read_materials and create_bl_mat reproduces every property, and
\* a material decoded from a flag word with reserved bits survives another
\* round trip unchanged.
C7_EveryCombinationRoundTrips ==
    /\ matOps = <<"write", "read", "create">> => MatProps(matBl) = MatProps(matOrig)
    /\ (Len(matOps) = 7 /\ MatLast = "create") => MatProps(matBl) = MatProps(matFirst)

\* C7 amended: the round trip reproduces every property for the combinations
\* in which the material has the LS3D shader node, diffuse_alpha implies
\* alpha_texture, texture_animation implies diffuse_texture, and
\* env_base_mixing / env_mix_type are off / NONE unless env_texture is set;
\* for every combination, and with reserved bits set in the flag word, a
\* second round trip reproduces the properties the first one produced.
C7_MaterialRoundTrip ==
    /\ (matOps = <<"write", "read", "create">> /\ MatCarried(matOrig)) =>
          MatProps(matBl) = MatProps(matOrig)
    /\ (Len(matOps) >= 6 /\ MatLast = "create") => MatProps(matBl) = MatProps(matFirst)

C7_Witness ==
    /\ matOps = <<"write", "reserve", "read", "create", "write", "read", "create">>
    /\ matFirst.ls3d_props.diffuse_alpha /\ matFirst.ls3d_props.texture_animation
    /\ matFirst.ls3d_props.env_mix_type = "ADD" /\ ~matFirst.use_backface_culling
    /\ MatProps(matBl) = MatProps(matFirst)

\* adjacent log entries of one field (a string's length byte and its bytes) are one field
RECURSIVE Coalesce(_)
Coalesce(log) ==
    IF Len(log) < 2 THEN log
    ELSE IF log[1][1] = log[2][1]
         THEN Coalesce(<< <<log[1][1], log[1][2] + log[2][2]>> >> \o SubSeq(log, 3, Len(log)))
         ELSE <<log[1]>> \o Coalesce(Tail(log))

\* the names of the optional fields written after the fixed part
MatOptional == [i \in 1..(Len(matWritten) - 3) |-> matWritten[i + 3][1]]

\* C8: the optional fields write_ls3d_material emits are exactly the fields
\* read_materials consumes for the flag word in the file, in the same order:
\* environment ratio + name iff ENVIRONMENT_MAPPING, diffuse name iff
\* DIFFUSE_MAPPING, alpha name iff ALPHA_MAPPING and not DIFFUSE_ALPHA, the
\* animated block iff DIFFUSE_ANIMATED, and one placeholder string iff none of
\* the three names is present.
C8_MaterialFieldsAligned ==
    MatLast = "read" =>
        LET F == MaterialFlag
            flags == FlagsAt(matFile, 2, 4)
            env == has_flag(flags, F.ENVIRONMENT_MAPPING)
            diff == has_flag(flags, F.DIFFUSE_MAPPING)
            alpha == has_flag(flags, F.ALPHA_MAPPING) /\ ~has_flag(flags, F.DIFFUSE_ALPHA)
            anim == has_flag(flags, F.DIFFUSE_ANIMATED)
        IN  /\ matCur.err = ""
            /\ matCur.pos = Len(matFile)
            /\ Len(matLib) = 1
            /\ Coalesce(Tail(matCur.log)) = Coalesce(FieldSizes(matWritten))
            /\ MatOptional =
                  (IF env THEN <<"env_ratio", "env_map">> ELSE <<>>)
                  \o (IF diff THEN <<"diff_map">> ELSE <<>>)
                  \o (IF alpha THEN <<"alpha_map">> ELSE <<>>)
                  \o (IF anim THEN <<"animation">> ELSE <<>>)
                  \o (IF ~env /\ ~diff /\ ~alpha THEN <<"placeholder">> ELSE <<>>)

C8_Witness ==
    /\ matOps = <<"write", "read">>
    /\ matBl.ls3d_props.alpha_texture /\ matBl.ls3d_props.diffuse_alpha
    /\ matBl.ls3d_props.diffuse_texture /\ matBl.ls3d_props.texture_animation
    /\ matBl.ls3d_props.env_texture
    /\ MatOptional = <<"env_ratio", "env_map", "diff_map", "animation">>
    /\ matCur.err = "" /\ matCur.pos = Len(matFile)

----------------------------------------------------------------------------
(* Harness of the primitive transcoder                                     *)

\* number of sample values per component
NumSamples == 3

\* bit patterns of 0.0, 1.0, 2.0, 0.5, 3.0 (float32)
F32Sample == <<0, 1065353216, 1073741824, 1056964608, 1077936128>>
\* vertex indices that fill one and two bytes
U16Sample == <<0, 1, 258, 65535, 513>>

SampleIdx == 1..NumSamples

Comp(kind) == IF kind = "face" THEN {U16Sample[i] : i \in SampleIdx}
                               ELSE {F32Sample[i] : i \in SampleIdx}

CompWidth(kind) == IF kind = "face" THEN 2 ELSE 4

Arity(kind) == IF kind = "quat" THEN 4 ELSE 3

\* sample matrices: entries that tell every (row, column) apart, and two uniform ones
MatSample(a, b) == [i \in 1..4 |-> [j \in 1..4 |-> a * (4 * (i - 1) + j) + b]]

\* lengths of the sample strings, around the limit of the length byte
StringLens == {0, 1, 255, 256, 300}

PrimMemValues(kind) ==
    CASE kind = "mat4" ->
            {MatSample(a, F32Sample[b]) : a \in 0..(NumSamples - 1), b \in SampleIdx}
      [] kind = "string" -> {[i \in 1..n |-> 65 + (i % 26)] : n \in StringLens}
      [] OTHER -> [1..Arity(kind) -> Comp(kind)]

PrimWriter(kind, v) ==
    CASE kind = "vec3" -> write_vector3(v)
      [] kind = "quat" -> write_quaternion(v)
      [] kind = "face" -> write_face(v)
      [] kind = "mat4" -> write_matrix4x4(v)
      [] kind = "string" -> write_presized_string(v).bytes

PrimReader(kind, bs) ==
    CASE kind = "vec3" -> read_vector3(bs)
      [] kind = "quat" -> read_quaternion(bs)
      [] kind = "face" -> read_face(bs)
      [] kind = "mat4" -> read_matrix4x4(bs)
      [] kind = "string" -> StringAt(bs, 0)

\* the components as they lie in memory, packed without any permutation
PrimRaw(kind, v) ==
    IF kind = "mat4" THEN Pack(v[1] \o v[2] \o v[3] \o v[4], 4)
                     ELSE Pack(v, CompWidth(kind))

MaxPrimOps == 5

\* the exception a writer raises on v, "" if none
PrimError(kind, v) == IF kind = "string" THEN write_presized_string(v).err ELSE ""

PrimInit ==
    /\ primKind \in {"vec3", "quat", "face", "mat4", "string"}
    /\ primSide \in {"mem", "stream"}
    /\ primKind = "string" => primSide = "mem"
    /\ \E v \in PrimMemValues(primKind) :
          primOrig = IF primSide = "mem" THEN v ELSE PrimRaw(primKind, v)
    /\ primVal = primOrig
    /\ primOps = <<>>
    /\ MatIdle /\ DecIdle /\ ExpIdle /\ SlotIdle

\* OStream.write_vector3 / write_quaternion / write_face / write_matrix4x4 /
\* write_presized_string: the bytes on the stream, or the exception raised
PrimWrite ==
    /\ primSide = "mem"
    /\ Len(primOps) < MaxPrimOps
    /\ primVal' = PrimWriter(primKind, primVal)
    /\ primSide' = IF PrimError(primKind, primVal) = "" THEN "stream"
                   ELSE PrimError(primKind, primVal)
    /\ primOps' = Append(primOps, "w")
    /\ UNCHANGED <<primKind, primOrig, nonPrimVars>>

\* IStream.read_vector3 / read_quaternion / read_face / read_matrix4x4
PrimRead ==
    /\ primSide = "stream"
    /\ Len(primOps) < MaxPrimOps
    /\ primVal' = PrimReader(primKind, primVal)
    /\ primSide' = "mem"
    /\ primOps' = Append(primOps, "r")
    /\ UNCHANGED <<primKind, primOrig, nonPrimVars>>

\* the in-memory components laid out again in stream order, as OStream.write(fmt, *v) does
PrimPack ==
    /\ primSide = "mem" /\ primKind # "string"
    /\ Len(primOps) < MaxPrimOps
    /\ primVal' = PrimRaw(primKind, primVal)
    /\ primSide' = "stream"
    /\ primOps' = Append(primOps, "p")
    /\ UNCHANGED <<primKind, primOrig, nonPrimVars>>

PrimNext == PrimWrite \/ PrimRead \/ PrimPack

SpecPrim == PrimInit /\ [][PrimNext]_vars

\* the raw stream components the run started from (a run that started from bytes)
PrimOrigComps == Unpack(primOrig, Arity(primKind), CompWidth(primKind))

\* C9: for every 3-vector, quaternion, face triple and 4x4 matrix, writer then
\* reader returns the in-memory value, reader then writer returns the stream
\* bytes, and read_quaternion maps stream (x, y, z, w) to memory (w, x, z, y).
C9_PrimitiveRoundTrip ==
    /\ primOps = <<"w", "r">> => primVal = primOrig
    /\ primOps = <<"r", "w">> => primVal = primOrig
    /\ (primKind = "quat" /\ primOps = <<"r">>) =>
          primVal = <<PrimOrigComps[4], PrimOrigComps[1], PrimOrigComps[3], PrimOrigComps[2]>>

C9_Witness ==
    /\ primKind = "quat"
    /\ primOps = <<"w", "r">>
    /\ Cardinality({primOrig[i] : i \in 1..4}) = 3
    /\ primVal = primOrig

\* C10 as stated: each transform (the reader's component permutation) applied
\* twice yields the original value, for vectors, quaternions and faces.
C10_AllInvolutions ==
    (primKind \in {"vec3", "quat", "face"} /\ primOps = <<"r", "p", "r">>) =>
        primVal = PrimOrigComps

\* C10 amended: the 3-vector permutation and the face-winding reversal are
\* involutions; the quaternion permutation of read_quaternion is a 3-cycle:
\* applied twice it equals the permutation of write_quaternion, and applied
\* three times it yields the original quaternion.
C10_Involutions ==
    /\ (primKind \in {"vec3", "face"} /\ primOps = <<"r", "p", "r">>) =>
          primVal = PrimOrigComps
    /\ (primKind = "quat" /\ primOps = <<"r", "p", "r">>) =>
          primVal = Unpack(write_quaternion(PrimOrigComps), 4, 4)
    /\ (primKind = "quat" /\ primOps = <<"r", "p", "r", "p", "r">>) =>
          primVal = PrimOrigComps

C10_Witness ==
    /\ primKind = "quat"
    /\ primOps = <<"r", "p", "r", "p", "r">>
    /\ Cardinality({PrimOrigComps[i] : i \in 1..4}) = 3
    /\ primVal = PrimOrigComps

\* C16: writing a length-prefixed string of more than 255 bytes (a texture
\* file name, an object name, a property block) fails with an error, and
\* for that string no length byte and no string byte reaches the stream; a
\* string of up to 255 bytes is written as its length and its bytes.
C16_LongStringFails ==
    (primKind = "string" /\ primOps # <<>>) =>
        IF Len(primOrig) > 255
        THEN primOps = <<"w">> /\ primSide = "struct.error" /\ primVal = <<>>
        ELSE primOps[1] = "w" /\ primSide \in {"mem", "stream"}
             /\ (primOps = <<"w">> => primVal = <<Len(primOrig)>> \o primOrig)

C16_Witness ==
    /\ primKind = "string" /\ Len(primOrig) = 256
    /\ primOps = <<"w">>
    /\ primSide = "struct.error" /\ primVal = <<>>


----------------------------------------------------------------------------
(* Object table reader (import_4ds.py read_objects / read_mesh and the     *)
(* read methods of _4ds_utils.py).  A reader takes the file and a cursor   *)
(* and returns the cursor after it; a loop stops at the first error.       *)

LS3D_4DS_SIGNATURE == <<52, 68, 83, 0>>
LS3D_4DS_VERSION == 41

ObjectType ==
    [VISUAL |-> 1, SECTOR |-> 5, DUMMY |-> 6, TARGET |-> 7, JOINT |-> 10, OCCLUDER |-> 12]

VisualType ==
    [STANDARD_MESH |-> 0, SINGLE_MESH |-> 2, SINGLE_MORPH |-> 3, BILLBOARD |-> 4,
     MORPH |-> 5, LENS |-> 6, MIRROR |-> 8]

\* the members of an IntEnum
Members(enum) == {enum[k] : k \in DOMAIN enum}

\* for i in range(n): Step; the exception of a failed read leaves the loop
RECURSIVE Repeat(_, _, _, _)
Repeat(Step(_, _), f, c, n) ==
    Let(<<c, n>>, LAMBDA a :
        IF a[1].err # "" \/ a[2] = 0 THEN a[1]
        ELSE Repeat(Step, f, Step(f, a[1]), a[2] - 1))

\* a count unpacked from n bytes at p, as range() uses it: every pass of a
\* loop reads at least one byte, so passes beyond Len(f) cannot succeed
CountAt(f, p, n) ==
    LET bs == BytesAt(f, p, n)
        low == FromLE(SubSeq(bs, 1, IF n < 2 THEN n ELSE 2))
    IN  IF \E i \in 3..n : bs[i] # 0 THEN Len(f) + 1
        ELSE IF low > Len(f) THEN Len(f) + 1 ELSE low

\* count = file.read(<n bytes>); for i in range(count): Step
Counted(Step(_, _), f, c0, name, n) ==
    Let(c0, LAMBDA c : Repeat(Step, f, read(f, c, name, n), CountAt(f, c.pos, n)))

\* positions.append(file.read_vector3()); file.stream.seek(4, 1)
read_position4(f, c) == seek(read(f, c, "position", 12), "pad", 4)

\* faces.append(file.read_face())
read_face_entry(f, c) == read(f, c, "face", 6)

\* StandardLOD.read, the submesh loop body
read_submesh(f, c) == read(f, Counted(read_face_entry, f, c, "faces_count", 2), "mat_index", 2)

\* StandardLOD.read, the vertex loop body: position, skipped normal, uv
read_lod_vertex(f, c) == read(f, seek(read(f, c, "position", 12), "normal", 12), "uv", 8)

\* StandardLOD.read; sqrt() of a negative draw distance raises ValueError
StandardLOD_read(f, c0) ==
    Let(c0, LAMBDA c :
        LET d == BytesAt(f, c.pos, 4)
            negative == d[4] >= 128 /\ d # <<0, 0, 0, 128>>
                        /\ ~(d[4] = 255 /\ d[3] >= 128 /\ <<d[1], d[2], d[3]>> # <<0, 0, 128>>)
            c1 == raise(read(f, c, "draw_distance", 4), IF negative THEN "ValueError" ELSE "")
        IN  Counted(read_submesh, f,
                    Counted(read_lod_vertex, f, read(f, c1, "unk0", 4), "vertices_count", 2),
                    "submeshes_count", 1))

\* StandardMesh.read: lods stays None for an instance
StandardMesh_read(f, c0) ==
    Let(c0, LAMBDA c :
        LET instance_index == FromLE(BytesAt(f, c.pos, 2)) - 1
        IN  IF instance_index < 0
            THEN [c |-> Counted(StandardLOD_read, f, read(f, c, "instance_index", 2),
                                "lod_count", 1),
                  instance_index |-> instance_index,
                  lods |-> CountAt(f, c.pos + 2, 1), has_lods |-> TRUE]
            ELSE [c |-> read(f, c, "instance_index", 2),
                  instance_index |-> instance_index, lods |-> 0, has_lods |-> FALSE])

\* faulty variant: the stored boolean taken as all_axis
Billboard_all_axis_as_stored(byte) == byte # 0

\* Billboard.read: self.all_axis = not file.read("<?")
Billboard_all_axis(byte) == byte = 0

\* Billboard.read: BillboardAxis(file.read("<I")) raises ValueError outside 0..2
Billboard_read(f, c) ==
    Let(StandardMesh_read(f, c), LAMBDA r :
        LET valid == BytesAt(f, r.c.pos, 4) \in {<<0, 0, 0, 0>>, <<1, 0, 0, 0>>, <<2, 0, 0, 0>>}
            c1 == raise(read(f, r.c, "axis", 4), IF valid THEN "" ELSE "ValueError")
        IN  [r EXCEPT !.c = read(f, c1, "all_axis", 1)])

\* Morph.read, the body of the loop over LODs
Morph_read_lod(f, c0, frame_count) ==
    Let(<<c0, frame_count>>, LAMBDA a :
        LET vertices_count == CountAt(f, a[1].pos, 2)
            frames == IF vertices_count * a[2] > Len(f) THEN Len(f) + 1
                      ELSE vertices_count * a[2]
            c2 == Repeat(LAMBDA ff, cc : seek(read(ff, cc, "position", 12), "normal", 12),
                         f, read(f, a[1], "vertices_count", 2), frames)
        IN  IF vertices_count = 0 THEN read(f, a[1], "vertices_count", 2)
            ELSE Repeat(LAMBDA ff, cc : read(ff, cc, "position_index", 2),
                        f, read(f, c2, "unknown", 1), vertices_count))

\* Morph.read: three count bytes, the morphed LODs, 48 skipped reserved bytes
Morph_read(f, c0) ==
    Let(c0, LAMBDA c :
        LET c3 == read(f, read(f, read(f, c, "frame_count", 1), "lod_count", 1), "unknown", 1)
        IN  seek(Repeat(LAMBDA ff, cc : Morph_read_lod(ff, cc, CountAt(f, c.pos, 1)),
                        f, c3, CountAt(f, c.pos + 1, 1)),
                 "reserved", 48))

\* MorphMesh.read
MorphMesh_read(f, c) ==
    Let(StandardMesh_read(f, c), LAMBDA r : [r EXCEPT !.c = Morph_read(f, r.c)])

\* SingleMesh.read: joints, their matrices and boxes, then per LOD the weights;
\* len(self.lods) raises TypeError when the mesh is an instance (lods is None)
SingleMesh_read(f, c) ==
    Let(StandardMesh_read(f, c), LAMBDA r :
        LET joints_count == CountAt(f, r.c.pos, 1)
            c1 == seek(read(f, r.c, "joints_count", 1), "bbox", 32)
            c2 == Repeat(LAMBDA ff, cc : read(ff, cc, "joint_index", 1), f, c1, joints_count)
            c3 == Repeat(LAMBDA ff, cc : seek(read(ff, cc, "joint_matrix", 64), "bbox", 32),
                         f, c2, joints_count)
            weights(ff, cc) ==
                Counted(LAMBDA fff, ccc : read(fff, ccc, "weight", 2), ff, cc,
                        "weights_count", 4)
        IN  [r EXCEPT !.c = IF r.has_lods THEN Repeat(weights, f, c3, r.lods)
                            ELSE raise(c3, "TypeError")])

\* SingleMorph.read
SingleMorph_read(f, c) ==
    Let(SingleMesh_read(f, c), LAMBDA r : [r EXCEPT !.c = Morph_read(f, r.c)])

\* Lens.read
Lens_read(f, c) ==
    Counted(LAMBDA ff, cc : read(ff, cc, "sublens", 10), f, c, "sublenses_count", 1)

\* Mirror.read
Mirror_read(f, c) ==
    Let(read(f, read(f, read(f, read(f, read(f, seek(c, "bbox", 32), "unk0", 16),
             "reflection_matrix", 64), "back_color", 12), "unk1", 4), "far_plane", 4),
        LAMBDA c3 :
            Repeat(read_face_entry, f,
                   Repeat(read_position4, f,
                          read(f, read(f, c3, "vertices_count", 4), "faces_count", 4),
                          CountAt(f, c3.pos, 4)),
                   CountAt(f, c3.pos + 4, 4)))

\* Sector.read, the body of the loop over portals
Sector_read_portal(f, c0) ==
    Let(c0, LAMBDA c :
        Repeat(read_position4, f,
               read(f, seek(read(f, c, "vertices_count", 1), "normal_distance", 16),
                    "portal", 16),
               CountAt(f, c.pos, 1)))

\* Sector.read
Sector_read(f, c) ==
    Let(read(f, c, "flags_unknown", 8), LAMBDA c1 :
        LET c2 == read(f, read(f, c1, "vertices_count", 4), "faces_count", 4)
            c3 == Repeat(read_position4, f, seek(c2, "bbox", 32), CountAt(f, c1.pos, 4))
        IN  Counted(Sector_read_portal, f,
                    Repeat(read_face_entry, f, c3, CountAt(f, c1.pos + 4, 4)),
                    "portals_count", 1))

\* Dummy.read
Dummy_read(f, c) ==
    seek(read(f, seek(read(f, c, "bounds_min", 12), "pad", 4), "bounds_max", 12), "pad", 4)

\* Target.read
Target_read(f, c) ==
    Counted(LAMBDA ff, cc : read(ff, cc, "target", 2), f, read(f, c, "unk", 2),
            "targets_count", 1)

\* Joint.read
Joint_read(f, c) == read(f, c, "joint_index", 4)

\* Occluder.read
Occluder_read(f, c0) ==
    Let(c0, LAMBDA c :
        Repeat(read_face_entry, f,
               Repeat(read_position4, f,
                      read(f, read(f, c, "vertices_count", 4), "faces_count", 4),
                      CountAt(f, c.pos, 4)),
               CountAt(f, c.pos + 4, 4)))

\* a mesh without the StandardMesh fields
PlainMesh(c) == [c |-> c, instance_index |-> -1, lods |-> 0, has_lods |-> FALSE]

\* read_mesh: the reader of the variant named by the two tags
read_mesh(f, c, obj_type, visual_type) ==
    LET O == ObjectType
        V == VisualType
    IN  IF obj_type = O.VISUAL
        THEN CASE visual_type = V.STANDARD_MESH -> StandardMesh_read(f, c)
               [] visual_type = V.SINGLE_MESH -> SingleMesh_read(f, c)
               [] visual_type = V.SINGLE_MORPH -> SingleMorph_read(f, c)
               [] visual_type = V.BILLBOARD -> Billboard_read(f, c)
               [] visual_type = V.MORPH -> MorphMesh_read(f, c)
               [] visual_type = V.LENS -> PlainMesh(Lens_read(f, c))
               [] visual_type = V.MIRROR -> PlainMesh(Mirror_read(f, c))
               [] OTHER -> PlainMesh(raise(c, "Exception"))
        ELSE CASE obj_type = O.SECTOR -> PlainMesh(Sector_read(f, c))
               [] obj_type = O.DUMMY -> PlainMesh(Dummy_read(f, c))
               [] obj_type = O.TARGET -> PlainMesh(Target_read(f, c))
               [] obj_type = O.JOINT -> PlainMesh(Joint_read(f, c))
               [] obj_type = O.OCCLUDER -> PlainMesh(Occluder_read(f, c))
               [] OTHER -> PlainMesh(raise(c, "Exception"))

\* file.read("<3f"), file.read("<4f"): the tuple struct.unpack returns, its
\* components in stream order
Tuple(bytes) == [class |-> "tuple", v |-> Unpack(bytes, Len(bytes) \div 4, 4)]

\* the reads a cursor logged from entry j on, the first of them at stream
\* position p: name, position, and the number of StandardLOD records begun
RECURSIVE logged(_, _, _, _, _)
logged(log, j, p, lod, acc) ==
    Let(<<j, p, lod, acc>>, LAMBDA a :
        IF a[1] > Len(log) THEN a[4]
        ELSE Let(<<log[a[1]], IF log[a[1]][1] = "draw_distance" THEN a[3] + 1 ELSE a[3]>>,
                 LAMBDA e :
                 logged(log, a[1] + 1, a[2] + e[1][2], e[2],
                        Append(a[4], [name |-> e[1][1], pos |-> a[2], lod |-> e[2]]))))

\* what a mesh keeps of the reads its reader made between cursors c and m.c:
\* per submesh and sublens the LOD (0 for the first, and for a lens) and the
\* material index, for a joint its index, for a SingleMesh its joint count
\* and the joint index of every weighted vertex, for a Billboard its axis
\* and all_axis = not file.read("<?"), for a Sector its portals
\* (Portal(*file.read("<IffBBBB")) and the positions read after it)
mesh_fields(f, c, m) ==
    Let(logged(m.c.log, Len(c.log) + 1, c.pos, 0, <<>>), LAMBDA rs :
        LET named(n) == SelectSeq(rs, LAMBDA r : r.name = n)
            at(n, w) == [i \in 1..Len(named(n)) |-> UIntAt(f, named(n)[i].pos, w)]
            subs == SelectSeq(rs, LAMBDA r : r.name \in {"mat_index", "sublens"})
        IN  [instance_index |-> m.instance_index, lods |-> m.lods, has_lods |-> m.has_lods,
             materials |-> [i \in 1..Len(subs) |->
                 IF subs[i].name = "sublens" THEN <<0, UIntAt(f, subs[i].pos + 8, 2)>>
                 ELSE <<subs[i].lod - 1, UIntAt(f, subs[i].pos, 2)>>],
             joint_index |-> IF named("joint_index") # <<>> /\ named("joints_count") = <<>>
                             THEN UIntAt(f, named("joint_index")[1].pos, 4) ELSE 0,
             joints_count |-> IF named("joints_count") = <<>> THEN 0
                              ELSE at("joints_count", 1)[1],
             weights |-> at("weight", 1),
             single_lods |-> [l \in 1..Len(named("weights_count")) |->
                 LET p == named("weights_count")[l].pos
                 IN  [j \in 1..UIntAt(f, p, 4) |->
                         [joint_index |-> UIntAt(f, p + 4 + 2 * (j - 1), 1),
                          weight |-> UIntAt(f, p + 5 + 2 * (j - 1), 1)]]],
             axis |-> IF named("axis") = <<>> THEN 0 ELSE at("axis", 4)[1],
             portals |-> [i \in 1..Len(named("portal")) |->
                 LET p == named("portal")[i].pos
                 IN  [flags |-> FlagsAt(f, p, 4),
                      unk0 |-> UIntAt(f, p + 4, 4), unk1 |-> UIntAt(f, p + 8, 4),
                      color |-> BytesAt(f, p + 12, 4),
                      positions |-> [j \in 1..UIntAt(f, p - 17, 1) |->
                          read_vector3(BytesAt(f, p + 16 * j, 12))]]],
             all_axis |-> named("all_axis") # <<>>
                          /\ Billboard_all_axis(at("all_axis", 1)[1])])

\* read_objects, the body of the loop: bound says whether the local obj_type
\* has been assigned by an earlier pass of the loop
read_object(f, c0, bound) ==
    Let(c0, LAMBDA c :
    LET obj_type == FromLE(BytesAt(f, c.pos, 1))
        visual == obj_type = ObjectType.VISUAL
        visual_type == IF visual THEN FromLE(BytesAt(f, c.pos + 1, 1)) ELSE 0
        at == c.pos + (IF visual THEN 4 ELSE 1)
        c2 == raise(read(f, c, "object_type", 1),
                    IF obj_type \in Members(ObjectType) THEN ""
                    ELSE IF bound THEN "IOError: Unsupported object type"
                    ELSE "UnboundLocalError")
        c4 == raise(IF visual THEN read(f, c2, "visual_type", 1) ELSE c2,
                    IF visual_type \in Members(VisualType) THEN ""
                    ELSE "IOError: Unsupported visual type")
        c6 == read(f, IF visual THEN read(f, c4, "visual_flags", 2) ELSE c4, "parent_index", 2)
        c8 == read(f, read(f, read(f, read(f, c6, "location", 12), "rotation", 16),
                           "scale", 12), "unk0_culling_flags", 5)
    IN  Let(read_presized_string(f, c8, "name"), LAMBDA c9 :
        Let(read_presized_string(f, c9, "properties"), LAMBDA c10 :
        Let(read_mesh(f, c10, obj_type, visual_type), LAMBDA m :
        [c |-> m.c,
         obj |-> [object_type |-> obj_type, visual_type |-> visual_type,
                  visual_flags |-> IF visual THEN FromLE(BytesAt(f, c.pos + 2, 2)) ELSE 0,
                  parent_index |-> FromLE(BytesAt(f, at, 2)),
                  location |-> Tuple(BytesAt(f, at + 2, 12)),
                  rotation |-> Tuple(BytesAt(f, at + 14, 16)),
                  scale |-> Tuple(BytesAt(f, at + 30, 12)),
                  unk0 |-> BytesAt(f, at + 42, 4),
                  culling_flags |-> FromLE(BytesAt(f, at + 46, 1)),
                  name |-> StringAt(f, at + 47),
                  properties |-> StringAt(f, c9.pos),
                  mesh |-> IF m.c.err = "" THEN mesh_fields(f, c10, m) ELSE None,
                  first |-> c.pos, last |-> m.c.pos]]))))

RECURSIVE read_objects_loop(_, _, _, _, _)
read_objects_loop(f, c, n, objs, bound) ==
    Let(<<c, n, objs>>, LAMBDA a :
        IF a[1].err # "" \/ a[2] = 0 THEN [c |-> a[1], Objects |-> a[3]]
        ELSE Let(read_object(f, a[1], bound), LAMBDA r :
                 read_objects_loop(f, r.c, a[2] - 1,
                                   IF r.c.err = "" THEN Append(a[3], r.obj) ELSE a[3], TRUE)))

\* read_objects: Libraries.Objects = [], the count, then each object
read_objects(f, c0) ==
    Let(c0, LAMBDA c :
        read_objects_loop(f, read(f, c, "obj_count", 2), CountAt(f, c.pos, 2), <<>>, FALSE))

----------------------------------------------------------------------------
(* Object flags (_4ds_utils.py, ls3d_object.py): a flag word is the set of *)
(* its bit positions; the Blender object carries one boolean property per  *)
(* named flag, visual_flag_a..g and culling_flag_a..e, known by its letter. *)

VisualFlags ==
    [DEPTH_BIAS |-> {8}, DYNAMIC_SHADOWS |-> {9}, UNKNOWN0 |-> {10}, UNKNOWN1 |-> {11},
     UNKNOWN2 |-> {12}, DECALS |-> {13}, NO_FOG |-> {15}]

CullingFlags ==
    [ENABLED |-> {0}, UNKNOWN1 |-> {2}, UNKNOWN2 |-> {3}, UNKNOWN3 |-> {4}, UNKNOWN4 |-> {5}]

\* the flag each property stands for
VisualFlagProps ==
    [a |-> VisualFlags.DEPTH_BIAS, b |-> VisualFlags.DYNAMIC_SHADOWS,
     c |-> VisualFlags.UNKNOWN0, d |-> VisualFlags.UNKNOWN1,
     e |-> VisualFlags.UNKNOWN2, f |-> VisualFlags.DECALS,
     g |-> VisualFlags.NO_FOG]

CullingFlagProps ==
    [a |-> CullingFlags.ENABLED, b |-> CullingFlags.UNKNOWN1,
     c |-> CullingFlags.UNKNOWN2, d |-> CullingFlags.UNKNOWN3,
     e |-> CullingFlags.UNKNOWN4]

\* PortalFlags, and the flag each portal property flag_a..d stands for
PortalFlags == [UNKNOWN0 |-> {2}, UNKNOWN1 |-> {4}, UNKNOWN2 |-> {5}, UNKNOWN3 |-> {6}]

PortalFlagProps ==
    [a |-> PortalFlags.UNKNOWN0, b |-> PortalFlags.UNKNOWN1,
     c |-> PortalFlags.UNKNOWN2, d |-> PortalFlags.UNKNOWN3]

\* create_ls3d_object: the unknown 32-bit field given to the LS3DObject of a
\* Blender object is the literal 0
ls3d_unk0(bl_obj) == 0

\* flags |= bit, for every letter of the properties that is set
Flags(letters, bits) == UNION { bits[l] : l \in letters \cap DOMAIN bits }

\* props.<flag>_x = flags & BIT == BIT, for every property x
flag_props(flags, bits) == { l \in DOMAIN bits : bits[l] \subseteq flags }

\* the bit positions set in an unpacked integer of n bits
Bits(v, n) == { b \in 0..(n - 1) : (v \div (2 ^ b)) % 2 = 1 }

----------------------------------------------------------------------------
(* import_4ds (import_4ds.py): the decode pass, one action per statement   *)
(* group.  An exception ends the pass where it is raised: the cursor keeps *)
(* its kind, Libraries and the scene keep what they held.                  *)

\* class Libraries as it is defined: no table assigned, WorldArmature = None
Unset ==
    [Materials |-> <<>>, Objects |-> <<>>, Joints |-> <<>>, MeshInstances |-> <<>>,
     MeshInstancesParents |-> <<>>, assigned |-> {}, WorldArmature |-> FALSE]

\* the Blender data before a pass has created any
EmptyScene == [materials |-> <<>>, objects |-> <<>>, skeleton |-> <<>>]

\* Libraries.Joints: the table positions of the JOINT objects, in table order
Joints(objs) ==
    SelectSeq([i \in 1..Len(objs) |-> i], LAMBDA i : objs[i].object_type = ObjectType.JOINT)

\* a matrix, or the exception raised instead of one.  A matrix is kept as the
\* product it is: the sequence of its factors, left to right, so that a @ b
\* is a \o b and two products are equal only if they multiply the same
\* factors in the same order.
Matrix(factors) == [err |-> "", m |-> factors]
NoMatrix(err) == [err |-> err, m |-> <<>>]

\* faulty variant: any sequence of four floats has a rotation matrix
to_matrix_of_sequence(rotation) == Matrix(<< <<"rot", rotation.v>> >>)

\* rotation.to_matrix().to_4x4(): a method of mathutils.Quaternion; the
\* tuple read_objects stores has no such attribute
to_matrix(rotation) ==
    IF rotation.class = "Quaternion" THEN Matrix(<< <<"rot", rotation.v>> >>)
    ELSE NoMatrix("AttributeError")

\* create_transformation: mat_loc @ mat_rot @ mat_sca
create_transformation(translation, rotation, scale) ==
    Let(to_matrix(rotation), LAMBDA mat_rot :
        IF mat_rot.err # "" THEN mat_rot
        ELSE Matrix(<< <<"loc", translation.v>> >> \o mat_rot.m \o << <<"sca", scale.v>> >>))

\* a reference to a Blender object: the bl_obj of the table entry at position
\* k, an armature create_armature made ("Armature World" without a bl_obj,
\* "Armature <name>" with the bl_obj at position k as its child), or None
Object(k) == [of |-> k, named |-> "bl_obj"]
Armature(k, named) == [of |-> k, named |-> named]
NoObject == [of |-> 0, named |-> "None"]

\* what a decode pass has built so far, per table position: the joint's
\* transformation, children, armature, whether its bone and direction exist
\* and what its tail_location was computed from (the translation of a
\* transformation, or the direction of the joint at a position); the
\* object's bl_obj, armature and the armature's properties, the portal
\* objects made for a sector; the
\* armatures create_armature made, in order; Libraries.WorldArmature
Building(n, world) ==
    [err |-> "",
     transformation |-> [i \in 1..n |-> None], children |-> [i \in 1..n |-> <<>>],
     armature |-> [i \in 1..n |-> NoObject], direction |-> {}, bones |-> <<>>,
     tail |-> [i \in 1..n |-> None], portals |-> [i \in 1..n |-> <<>>],
     groups |-> [i \in 1..n |-> <<>>],
     bl |-> [i \in 1..n |-> None], armature_props |-> [i \in 1..n |-> None],
     armatures |-> <<>>, WorldArmature |-> world]

Failed(W, err) == [W EXCEPT !.err = err]

\* Joint.prepare_bone of the joint at position k
prepare_bone(objs, W, k) ==
    Let(create_transformation(objs[k].location, objs[k].rotation, objs[k].scale),
        LAMBDA local :
        LET p == objs[k].parent_index
        IN  IF local.err # "" THEN Failed(W, local.err)
            ELSE IF p = 0 THEN [W EXCEPT !.transformation[k] = local.m]
            ELSE IF p > Len(objs) THEN Failed(W, "IndexError")
            ELSE IF objs[p].object_type # ObjectType.JOINT
                 THEN [W EXCEPT !.transformation[k] = local.m]
            ELSE IF W.transformation[p] = None THEN Failed(W, "AttributeError")
            ELSE [W EXCEPT !.children[p] = Append(@, k),
                           !.transformation[k] = W.transformation[p] \o local.m])

\* for joint in Libraries.Joints: joint.mesh.prepare_bone(joint)
RECURSIVE prepare_bones(_, _, _)
prepare_bones(objs, W0, js) ==
    Let(W0, LAMBDA W :
        IF W.err # "" \/ js = <<>> THEN W
        ELSE prepare_bones(objs, prepare_bone(objs, W, Head(js)), Tail(js)))

\* Joint.build_bl_obj of the joint at position k: its armature, its tail
\* (from the first child, or along the direction of the JOINT parent), the
\* edit bone; the method returns None
Joint_build_bl_obj(objs, W, k) ==
    LET p == objs[k].parent_index
        jp == p # 0 /\ objs[p].object_type = ObjectType.JOINT
        own == Armature(p, IF W.bl[p] = None THEN "Armature World" ELSE "Armature")
        W1 == IF p = 0
              THEN IF W.WorldArmature
                   THEN [W EXCEPT !.armature[k] = Armature(0, "Armature World")]
                   ELSE [W EXCEPT !.armature[k] = Armature(0, "Armature World"),
                                  !.armatures = Append(@, Armature(0, "Armature World")),
                                  !.WorldArmature = TRUE]
              ELSE IF jp
              THEN IF W.armature[p] = NoObject THEN Failed(W, "AttributeError")
                   ELSE [W EXCEPT !.armature[k] = W.armature[p]]
              ELSE IF W.armature[p] # NoObject THEN [W EXCEPT !.armature[k] = W.armature[p]]
              ELSE [W EXCEPT !.armature[k] = own, !.armature[p] = own,
                             !.armatures = Append(@, own),
                             !.armature_props[p] = [matrix_local |-> None]]
    IN  Let(W1, LAMBDA V :
        IF V.err # "" THEN V
        ELSE IF V.children[k] # <<>>
             THEN [V EXCEPT !.direction = @ \cup {k}, !.bones = Append(@, k),
                            !.tail[k] = <<"to_translation",
                                          V.transformation[Head(V.children[k])]>>]
        ELSE IF ~jp \/ p \notin V.direction THEN Failed(V, "AttributeError")
        ELSE [V EXCEPT !.bones = Append(@, k), !.tail[k] = <<"direction", p>>])

\* bpy.data.objects.new: ls3d_props at their defaults, nothing linked
NewObject ==
    [parent |-> NoObject, parent_bone |-> 0, matrix_local |-> None, matrix_world |-> None,
     mesh_type |-> "STANDARD", visual_flags |-> {"b", "d", "f"},
     culling_flags |-> {"a", "c"}, user_defined_properties |-> <<>>,
     billboarding_axis |-> "Y", linked |-> FALSE, lods |-> 0]

\* Libraries.Materials[material_index - 1] of every submesh of LOD lod (of
\* every sublens of a lens) that names a material
materials_found(mesh, nmats, lod) ==
    \A i \in 1..Len(mesh.materials) :
        mesh.materials[i][1] = lod => mesh.materials[i][2] <= nmats

FamilyTypes ==
    {VisualType.STANDARD_MESH, VisualType.SINGLE_MESH, VisualType.SINGLE_MORPH,
     VisualType.BILLBOARD, VisualType.MORPH}

SingleTypes == {VisualType.SINGLE_MESH, VisualType.SINGLE_MORPH}

IsFamily(obj) == obj.object_type = ObjectType.VISUAL /\ obj.visual_type \in FamilyTypes
IsSingle(obj) == obj.object_type = ObjectType.VISUAL /\ obj.visual_type \in SingleTypes

\* Sector.build_bl_obj, create_portal: the portal object and its properties;
\* a component c of the colour stands for c / 255
create_portal(portal) ==
    [mesh_type |-> "SECTOR", is_portal |-> TRUE, positions |-> portal.positions,
     portal_props |-> [flags |-> flag_props(portal.flags, PortalFlagProps),
                       unknown_a |-> portal.unk0, unknown_b |-> portal.unk1,
                       color |-> portal.color]]

\* Billboard.build_bl_obj: props.billboarding_axis
Billboard_billboarding_axis(mesh) ==
    IF mesh.all_axis THEN "XYZ"
    ELSE IF mesh.axis = 0 THEN "X" ELSE IF mesh.axis = 2 THEN "Y" ELSE "Z"

\* <mesh>.build_bl_obj of the object at position k, not a joint: a copy of
\* the instanced object's bl_obj, or a new object with the mesh of LOD 0; a
\* light per lens; Billboard sets its mesh type and axis; SingleMesh adds
\* obj.create_armature(bl_obj)
build_bl_obj(objs, nmats, W, k) ==
    LET obj == objs[k]
        billboard == obj.object_type = ObjectType.VISUAL
                     /\ obj.visual_type = VisualType.BILLBOARD
        inst == obj.mesh.instance_index + 1
        lens == obj.object_type = ObjectType.VISUAL /\ obj.visual_type = VisualType.LENS
        W1 == IF IsFamily(obj) /\ inst > 0
              THEN IF inst > Len(objs) THEN Failed(W, "IndexError")
                   ELSE IF W.bl[inst] = None THEN Failed(W, "AttributeError")
                   ELSE [W EXCEPT !.bl[k] = [W.bl[inst] EXCEPT !.parent = NoObject]]
              ELSE IF (IsFamily(obj) \/ lens) /\ ~materials_found(obj.mesh, nmats, 0)
              THEN Failed(W, "IndexError")
              ELSE [W EXCEPT !.bl[k] = NewObject]
    IN  Let(W1, LAMBDA V :
        IF V.err = "" /\ billboard
        THEN [V EXCEPT !.bl[k].mesh_type = "BILLBOARD",
                       !.bl[k].billboarding_axis = Billboard_billboarding_axis(obj.mesh)]
        ELSE IF V.err = "" /\ obj.object_type = ObjectType.SECTOR
        THEN [V EXCEPT !.portals[k] =
                 [i \in 1..Len(obj.mesh.portals) |-> create_portal(obj.mesh.portals[i])]]
        ELSE IF V.err # "" \/ ~IsSingle(obj) THEN V
        ELSE [V EXCEPT !.armature[k] = Armature(k, "Armature"),
                       !.armatures = Append(@, Armature(k, "Armature")),
                       !.armature_props[k] = [matrix_local |-> None],
                       !.bl[k].parent = Armature(k, "Armature")])

\* str.splitlines() of an ASCII string: a line ends at \n, \r, \r\n, \v, \f
\* or one of \x1c..\x1e; no empty last line
RECURSIVE splitlines(_, _, _)
splitlines(string, line, lines) ==
    Let(<<string, line, lines>>, LAMBDA a :
        IF a[1] = <<>> THEN (IF a[2] = <<>> THEN a[3] ELSE Append(a[3], a[2]))
        ELSE IF Len(a[1]) >= 2 /\ a[1][1] = 13 /\ a[1][2] = 10
             THEN splitlines(Tail(Tail(a[1])), <<>>, Append(a[3], a[2]))
        ELSE IF a[1][1] \in {10, 11, 12, 13, 28, 29, 30}
             THEN splitlines(Tail(a[1]), <<>>, Append(a[3], a[2]))
        ELSE splitlines(Tail(a[1]), Append(a[2], a[1][1]), a[3]))

\* LS3DObject.get_mesh_type
get_mesh_type(obj) ==
    LET V == VisualType
    IN  CASE obj.object_type = ObjectType.VISUAL /\ obj.visual_type = V.STANDARD_MESH -> "STANDARD"
          [] obj.object_type = ObjectType.VISUAL /\ obj.visual_type = V.BILLBOARD -> "BILLBOARD"
          [] obj.object_type = ObjectType.VISUAL /\ obj.visual_type = V.SINGLE_MESH -> "SINGLE"
          [] obj.object_type = ObjectType.VISUAL /\ obj.visual_type = V.MORPH -> "MORPH"
          [] obj.object_type = ObjectType.VISUAL /\ obj.visual_type = V.SINGLE_MORPH -> "SINGLE_MORPH"
          [] obj.object_type = ObjectType.VISUAL /\ obj.visual_type = V.MIRROR -> "MIRROR"
          [] obj.object_type = ObjectType.SECTOR -> "SECTOR"
          [] obj.object_type = ObjectType.OCCLUDER -> "OCCLUDER"
          [] OTHER -> "None"

\* LS3DObject.set_parent of the object at position k, local its own matrix:
\* the bl_obj of a parent that is not built yet is None, a JOINT parent
\* gives its armature and bone
set_parent(objs, W, k, local) ==
    LET p == objs[k].parent_index
    IN  IF p = 0 THEN W
        ELSE IF p > Len(objs) THEN Failed(W, "IndexError")
        ELSE IF objs[p].object_type # ObjectType.JOINT
             THEN [W EXCEPT !.bl[k].parent = IF W.bl[p] = None THEN NoObject ELSE Object(p)]
        ELSE IF W.armature[p] = NoObject THEN Failed(W, "AttributeError")
        ELSE [W EXCEPT !.bl[k].parent = W.armature[p], !.bl[k].parent_bone = p,
                       !.bl[k].matrix_world = W.transformation[p] \o local]

\* LS3DObject.__set_common_properties of the object at position k: the lines
\* of its properties, the local matrix, the parent, and one boolean per named
\* flag, on the object's armature if it has one
set_common_properties(objs, W0, k) ==
    Let(<<W0, create_transformation(objs[k].location, objs[k].rotation, objs[k].scale)>>,
        LAMBDA a :
        LET obj == objs[k]
            W == a[1]
            lined == [W EXCEPT !.bl[k].user_defined_properties =
                         @ \o splitlines(obj.properties, <<>>, <<>>)]
            on_armature == W.armature[k] # NoObject
            visual == obj.object_type = ObjectType.VISUAL
            props == [matrix_local |-> a[2].m,
                      mesh_type |-> get_mesh_type(obj),
                      visual_flags |-> flag_props(Bits(obj.visual_flags, 16), VisualFlagProps),
                      culling_flags |-> flag_props(Bits(obj.culling_flags, 8), CullingFlagProps)]
        IN  IF a[2].err # "" THEN Failed(lined, a[2].err)
            ELSE Let(set_parent(objs, lined, k, a[2].m), LAMBDA V :
                 IF V.err # "" THEN V
                 ELSE IF on_armature THEN [V EXCEPT !.armature_props[k] = props]
                 ELSE [V EXCEPT !.bl[k].matrix_local = props.matrix_local,
                                !.bl[k].mesh_type =
                                    IF props.mesh_type = "None" THEN @ ELSE props.mesh_type,
                                !.bl[k].visual_flags =
                                    IF visual THEN props.visual_flags ELSE @,
                                !.bl[k].culling_flags = props.culling_flags]))

\* vgs[vg_index][0].add([i], 1.0 - weight / 256.0, 'ADD') for vg_index =
\* joint_index - 1 on the list vgs of n groups: index -1 is the last of the
\* list; the weight is kept as its numerator over 256
vertex_group_add(objs, n, i, weighted_vertex) ==
    LET vg_index == weighted_vertex.joint_index - 1
        at == IF vg_index < 0 THEN n + vg_index ELSE vg_index
        js == Joints(objs)
        last == CHOOSE a \in 1..Len(js) :
                    /\ objs[js[a]].mesh.joint_index = at
                    /\ \A b \in (a + 1)..Len(js) : objs[js[b]].mesh.joint_index # at
    IN  [vertex |-> i, joint |-> js[last], weight |-> 256 - weighted_vertex.weight]

\* StandardMesh.post_create: one object per further LOD; SingleMesh.post_create
\* then resolves, per LOD, a vertex group per joint of the file, a pose matrix
\* per joint and the group of every weighted vertex
post_create(objs, nmats, W, k) ==
    LET mesh == objs[k].mesh
        js == Joints(objs)
        vgs == { objs[js[i]].mesh.joint_index : i \in 1..Len(js) }
        n == mesh.joints_count
        unmatched == { i \in 0..(Len(js) - 1) : i >= n \/ i \notin vgs }
        first == CHOOSE i \in unmatched : \A j \in unmatched : i <= j
        group(i) == IF mesh.weights[i] = 0 THEN n - 1 ELSE mesh.weights[i] - 1
        further == { l \in 1..(mesh.lods - 1) : ~materials_found(mesh, nmats, l) }
    IN  IF ~IsFamily(objs[k]) \/ ~mesh.has_lods \/ mesh.lods = 0 THEN W
        ELSE IF further # {} THEN Failed(W, "IndexError")
        ELSE IF ~IsSingle(objs[k]) THEN [W EXCEPT !.bl[k].lods = mesh.lods - 1]
        ELSE IF \E v \in vgs : v >= n THEN Failed(W, "IndexError")
        ELSE IF unmatched # {} THEN Failed(W, IF first >= n THEN "IndexError" ELSE "TypeError")
        ELSE IF \E i \in 1..Len(mesh.weights) : group(i) >= n \/ group(i) < 0
             THEN Failed(W, "IndexError")
        ELSE IF \E i \in 1..Len(mesh.weights) : group(i) \notin vgs THEN Failed(W, "TypeError")
        ELSE [W EXCEPT !.bl[k].lods = mesh.lods - 1,
                       !.groups[k] = [l \in 1..Len(mesh.single_lods) |->
                           [i \in 1..Len(mesh.single_lods[l]) |->
                               vertex_group_add(objs, n, i - 1, mesh.single_lods[l][i])]]]

\* LS3DObject.create_bl_obj of the object at position k
create_bl_obj(objs, nmats, W, k) ==
    IF objs[k].object_type = ObjectType.JOINT THEN Joint_build_bl_obj(objs, W, k)
    ELSE Let(build_bl_obj(objs, nmats, W, k), LAMBDA V :
         IF V.err # "" THEN V
         ELSE Let(set_common_properties(objs, V, k), LAMBDA U :
              IF U.err # "" THEN U
              ELSE post_create(objs, nmats, [U EXCEPT !.bl[k].linked = TRUE], k)))

\* for obj in Libraries.Objects: obj.create_bl_obj(), from position k on
RECURSIVE create_bl_objs(_, _, _, _)
create_bl_objs(objs, nmats, W0, k) ==
    Let(W0, LAMBDA W :
        IF W.err # "" \/ k > Len(objs) THEN W
        ELSE create_bl_objs(objs, nmats, create_bl_obj(objs, nmats, W, k), k + 1))

\* the statement after an action: the next one, or none after an exception
After(c, next) == IF c.err = "" THEN next ELSE "failed"

\* signature = file.read("<4s"); if signature != LS3D_4DS_SIGNATURE: raise IOError
DecSignature ==
    /\ decPc = "signature"
    /\ LET c == read(decFile, decCur, "signature", 4)
           c1 == IF BytesAt(decFile, 0, 4) = LS3D_4DS_SIGNATURE THEN c
                 ELSE raise(c, "IOError: Invalid 4DS signature")
       IN  decCur' = c1 /\ decPc' = After(c1, "version")
    /\ UNCHANGED <<decIn, decFile, decLib, decScene, nonDecVars>>

\* faulty variant: the version is read and not compared
DecVersion_unchecked ==
    /\ decPc = "version"
    /\ LET c == read(decFile, decCur, "version", 2)
       IN  decCur' = c /\ decPc' = After(c, "timestamp")
    /\ UNCHANGED <<decIn, decFile, decLib, decScene, nonDecVars>>

\* version = file.read("<H"); if version != LS3D_4DS_VERSION: raise IOError
DecVersion ==
    /\ decPc = "version"
    /\ LET c == read(decFile, decCur, "version", 2)
           c1 == IF FromLE(BytesAt(decFile, decCur.pos, 2)) = LS3D_4DS_VERSION THEN c
                 ELSE raise(c, "IOError: Unsupported 4DS version")
       IN  decCur' = c1 /\ decPc' = After(c1, "timestamp")
    /\ UNCHANGED <<decIn, decFile, decLib, decScene, nonDecVars>>

\* file.stream.seek(8, 1)
DecSeekTimestamp ==
    /\ decPc = "timestamp"
    /\ decCur' = seek(decCur, "timestamp", 8)
    /\ decPc' = "read_materials"
    /\ UNCHANGED <<decIn, decFile, decLib, decScene, nonDecVars>>

\* read_materials(file)
DecReadMaterials ==
    /\ decPc = "read_materials"
    /\ LET r == read_materials(decFile, decCur)
       IN  /\ decCur' = r.c
           /\ decLib' = [decLib EXCEPT !.Materials = r.Materials,
                                       !.assigned = @ \cup {"Materials"}]
           /\ decPc' = After(r.c, "read_objects")
    /\ UNCHANGED <<decIn, decFile, decScene, nonDecVars>>

\* read_objects(file)
DecReadObjects ==
    /\ decPc = "read_objects"
    /\ LET r == read_objects(decFile, decCur)
       IN  /\ decCur' = r.c
           /\ decLib' = [decLib EXCEPT !.Objects = r.Objects,
                                       !.Joints = [i \in 1..Len(Joints(r.Objects)) |->
                                                     r.Objects[Joints(r.Objects)[i]]],
                                       !.assigned = @ \cup {"Objects", "Joints"}]
           /\ decPc' = After(r.c, "create_bl_mat")
    /\ UNCHANGED <<decIn, decFile, decScene, nonDecVars>>

\* for mat in Libraries.Materials: mat.create_bl_mat()
DecCreateMaterials ==
    /\ decPc = "create_bl_mat"
    /\ decScene' = [decScene EXCEPT !.materials =
                      [i \in 1..Len(decLib.Materials) |-> create_bl_mat(decLib.Materials[i])]]
    /\ decPc' = "prepare_bone"
    /\ UNCHANGED <<decIn, decFile, decCur, decLib, nonDecVars>>

\* for joint in Libraries.Joints: joint.mesh.prepare_bone(joint)
DecPrepareBones ==
    /\ decPc = "prepare_bone"
    /\ LET objs == decLib.Objects
           W == prepare_bones(objs, Building(Len(objs), decLib.WorldArmature), Joints(objs))
           c == raise(decCur, W.err)
       IN  /\ decScene' = [decScene EXCEPT !.skeleton = W]
           /\ decCur' = c
           /\ decPc' = After(c, "create_bl_obj")
    /\ UNCHANGED <<decIn, decFile, decLib, nonDecVars>>

\* for obj in Libraries.Objects: obj.create_bl_obj(); for joint in
\* Libraries.Joints: joint.mesh.set_pose_transformation(joint) (pass)
DecCreateObjects ==
    /\ decPc = "create_bl_obj"
    /\ LET objs == decLib.Objects
           W == create_bl_objs(objs, Len(decLib.Materials), decScene.skeleton, 1)
           c == raise(decCur, W.err)
       IN  /\ decScene' = [decScene EXCEPT !.objects = W.bl, !.skeleton = W]
           /\ decLib' = [decLib EXCEPT !.WorldArmature = W.WorldArmature]
           /\ decCur' = c
           /\ decPc' = After(c, "terminator")
    /\ UNCHANGED <<decIn, decFile, nonDecVars>>

\* animation_5ds = file.read("<B"); del Libraries.*; file.close()
DecTerminator ==
    /\ decPc = "terminator"
    /\ LET c == read(decFile, decCur, "animation_5ds", 1)
       IN  /\ decCur' = c
           /\ decPc' = After(c, "done")
           /\ decLib' = IF c.err # "" THEN decLib
                        ELSE [decLib EXCEPT !.Materials = <<>>, !.Objects = <<>>,
                                            !.Joints = <<>>,
                                            !.assigned = @ \ {"Materials", "Objects", "Joints"},
                                            !.WorldArmature = FALSE]
    /\ UNCHANGED <<decIn, decFile, decScene, nonDecVars>>

DecNext ==
    \/ DecSignature \/ DecVersion \/ DecSeekTimestamp \/ DecReadMaterials
    \/ DecReadObjects \/ DecCreateMaterials \/ DecPrepareBones \/ DecCreateObjects
    \/ DecTerminator

----------------------------------------------------------------------------
(* Files for the decode pass: well-formed files laid out as the readers    *)
(* consume them, and the damage done to one: a cut or one changed byte.    *)

\* the bytes of a region the reader skips or does not interpret
Fill(n) == [i \in 1..n |-> 1 + (i % 100)]

\* a StandardLOD record: nv vertices and, unless nf = 0, one submesh of nf faces
WFLod(nv, nf, mat) ==
    LE(1065353216, 4) \o LE(0, 4) \o LE(nv, 2) \o Fill(32 * nv)
    \o (IF nf = 0 THEN <<0>> ELSE <<1>> \o LE(nf, 2) \o Fill(6 * nf) \o LE(mat, 2))

\* a Morph record: one frame, one LOD of nv vertices, the reserved trailer
WFMorph(nv) ==
    <<1, 1, 0>> \o LE(nv, 2)
    \o (IF nv = 0 THEN <<>> ELSE Fill(24 * nv) \o <<0>> \o Pack([i \in 1..nv |-> i - 1], 2))
    \o Fill(48)

\* the two tags of a kind of object
WFTags(kind) ==
    CASE kind \in {"STANDARD", "INSTANCE"} -> <<1, 0>>
      [] kind \in {"SINGLE_MESH", "SKINNED"} -> <<1, 2>>
      [] kind = "SINGLE_MORPH" -> <<1, 3>>
      [] kind = "BILLBOARD" -> <<1, 4>>
      [] kind = "MORPH" -> <<1, 5>>
      [] kind = "LENS" -> <<1, 6>>
      [] kind = "MIRROR" -> <<1, 8>>
      [] kind = "SECTOR" -> <<5, 0>>
      [] kind = "DUMMY" -> <<6, 0>>
      [] kind = "TARGET" -> <<7, 0>>
      [] kind = "JOINT" -> <<10, 0>>
      [] kind = "OCCLUDER" -> <<12, 0>>

\* the payload of a kind of object; ref is its material, owner or joint index
WFMesh(kind, ref) ==
    LET standard == LE(0, 2) \o <<1>> \o WFLod(1, 1, ref)
        single == LE(0, 2) \o <<1>> \o WFLod(0, 0, 0) \o <<1>> \o Fill(32) \o <<0>>
                  \o Fill(64) \o Fill(32) \o LE(0, 4)
        skinned == LE(0, 2) \o <<1>> \o WFLod(2, 0, 0) \o <<2>> \o Fill(32) \o <<0, 1>>
                   \o Fill(64) \o Fill(32) \o Fill(64) \o Fill(32)
                   \o LE(2, 4) \o <<1, 0, 0, 255>>
        mesh16 == LE(1, 4) \o LE(1, 4)
    IN  CASE kind = "STANDARD" -> standard
          [] kind = "SKINNED" -> skinned
          [] kind = "INSTANCE" -> LE(ref, 2)
          [] kind = "SINGLE_MESH" -> single
          [] kind = "SINGLE_MORPH" -> single \o WFMorph(0)
          [] kind = "BILLBOARD" -> standard \o LE(2, 4) \o <<1>>
          [] kind = "MORPH" -> standard \o WFMorph(1)
          [] kind = "LENS" -> <<1>> \o Fill(8) \o LE(ref, 2)
          [] kind = "MIRROR" -> Fill(132) \o mesh16 \o Fill(16) \o Fill(6)
          [] kind = "SECTOR" -> Fill(8) \o mesh16 \o Fill(32) \o Fill(16) \o Fill(6)
                                \o <<1, 1>> \o Fill(32) \o Fill(16)
          [] kind = "DUMMY" -> Fill(32)
          [] kind = "TARGET" -> LE(0, 2) \o <<1>> \o LE(1, 2)
          [] kind = "JOINT" -> LE(ref, 4)
          [] kind = "OCCLUDER" -> mesh16 \o Fill(16) \o Fill(6)

\* an object record: the header read_objects consumes, then the payload
WFObject(o) ==
    LET tags == WFTags(o.kind)
    IN  <<tags[1]>> \o (IF tags[1] = 1 THEN <<tags[2]>> \o LE(256, 2) ELSE <<>>)
        \o LE(o.parent, 2) \o LE(o.ref + 1, 4) \o Fill(36) \o LE(0, 4) \o <<1>>
        \o write_presized_string(<<79, 98, 106>>).bytes \o write_presized_string(<<>>).bytes
        \o WFMesh(o.kind, o.ref)

\* a material record with a diffuse map name
WFMaterial ==
    PackFlags({0} \cup MaterialFlag.DIFFUSE_MAPPING, 4) \o Fill(72)
    \o write_presized_string(<<65, 46, 66>>).bytes

WFObj(kind, parent, ref) == [kind |-> kind, parent |-> parent, ref |-> ref]

\* the well-formed files: every kind of object alone, tables of two, empty
\* tables, joints under joints and under a dummy, an instance ahead of the
\* mesh it names, a joint alone, a skinned mesh of two weighted vertices
\* over two joints
WFSamples ==
    [k \in 1..11 |->
        [mats |-> IF k < 3 THEN 1 ELSE 0,
         objs |-> <<WFObj(<<"STANDARD", "LENS", "STANDARD", "SINGLE_MESH", "SINGLE_MORPH",
                            "BILLBOARD", "MORPH", "MIRROR", "SECTOR", "DUMMY",
                            "OCCLUDER">>[k], 0, IF k < 3 THEN 1 ELSE 0)>>]]
    \o << [mats |-> 0, objs |-> <<WFObj("STANDARD", 0, 0), WFObj("INSTANCE", 1, 1)>>],
          [mats |-> 0, objs |-> <<WFObj("JOINT", 0, 0), WFObj("JOINT", 1, 1)>>],
          [mats |-> 0, objs |-> <<WFObj("DUMMY", 0, 0), WFObj("TARGET", 1, 0)>>],
          [mats |-> 1, objs |-> <<>>],
          [mats |-> 0, objs |-> <<>>],
          [mats |-> 0, objs |-> <<WFObj("JOINT", 0, 0), WFObj("JOINT", 1, 1),
                                  WFObj("JOINT", 2, 2)>>],
          [mats |-> 0, objs |-> <<WFObj("DUMMY", 0, 0), WFObj("JOINT", 1, 0),
                                  WFObj("JOINT", 2, 1)>>],
          [mats |-> 0, objs |-> <<WFObj("INSTANCE", 0, 2), WFObj("STANDARD", 0, 0)>>],
          [mats |-> 0, objs |-> <<WFObj("JOINT", 0, 0)>>],
          [mats |-> 0, objs |-> <<WFObj("SKINNED", 0, 0), WFObj("JOINT", 1, 0),
                                  WFObj("JOINT", 2, 1)>>] >>

\* the offset of the i-th object record of a well-formed file
WFObjectAt(w, i) ==
    18 + w.mats * Len(WFMaterial)
    + Len(Flatten([j \in 1..(i - 1) |-> WFObject(w.objs[j])]))

\* signature, version, timestamp, material table, object table, terminator
WFFile(w) ==
    LS3D_4DS_SIGNATURE \o LE(LS3D_4DS_VERSION, 2) \o Fill(8)
    \o LE(w.mats, 2) \o Flatten([j \in 1..w.mats |-> WFMaterial])
    \o LE(Len(w.objs), 2) \o Flatten([j \in 1..Len(w.objs) |-> WFObject(w.objs[j])])
    \o <<0>>

\* the offset of a field of the i-th object record: its parent index, unknown
\* field and culling flags; its visual flags; the first reference of its
\* payload (instance index, material index of the first submesh or sublens)
WFFieldAt(w, i, field) ==
    LET kind == w.objs[i].kind
        at == WFObjectAt(w, i) + (IF WFTags(kind)[1] = 1 THEN 4 ELSE 1)
        mesh == at + 52
    IN  CASE field = "visual_flags" -> WFObjectAt(w, i) + 2
          [] field = "parent_index" -> at
          [] field = "unk0" -> at + 42
          [] field = "culling_flags" -> at + 46
          [] field = "instance_index" -> mesh
          [] field = "material_index" -> mesh + (IF kind = "LENS" THEN 9 ELSE 54)

\* the kinds whose first LOD has a submesh, or that are a lens
WFHasMaterial == {"STANDARD", "BILLBOARD", "MORPH", "LENS"}

BadVersions == {40, 42}
BadObjectTags == {0, 2, 13}
BadVisualTags == {1, 7, 9}

Damage(kind, at, val, obj) == [kind |-> kind, at |-> at, val |-> val, obj |-> obj]

\* values for a byte of the visual flags (named bits are 0, 1, 2, 3, 4, 5, 7
\* of the high byte), of the culling flags (named bits 0, 2, 3, 4, 5) and of
\* the unknown field
VisualFlagBytes == {<<0, 1>>, <<0, 255>>, <<1, 65>>, <<1, 0>>, <<1, 191>>}
CullingFlagBytes == {0, 2, 61, 193}
Unk0Bytes == {5, 255}

\* the damage done to a well-formed file: none, a cut after `at` bytes, or the
\* byte at offset `at` set to `val`: in the signature, the version, or in the
\* record of the object at table position `obj` a tag, a byte of a flag word
\* or of the unknown field, the parent index or the first reference of the
\* payload (set to a later position, its own, or one past the table)
Damages(w) ==
    LET f == WFFile(w)
    IN  {Damage("none", 0, 0, 0)}
        \cup {Damage("cut", k, 0, 0) : k \in 0..(Len(f) - 1)}
        \cup {Damage("signature", p, f[p + 1] + 1, 0) : p \in 0..3}
        \cup {Damage("version", 4, v, 0) : v \in BadVersions}
        \cup {Damage("object_type", WFObjectAt(w, i), v, i) :
                 i \in 1..Len(w.objs), v \in BadObjectTags}
        \cup {Damage("visual_type", WFObjectAt(w, i) + 1, v, i) :
                 i \in {j \in 1..Len(w.objs) : WFTags(w.objs[j].kind)[1] = 1},
                 v \in BadVisualTags}
        \cup {Damage("visual_flags", WFFieldAt(w, i, "visual_flags") + v[1], v[2], i) :
                 i \in {j \in 1..Len(w.objs) : WFTags(w.objs[j].kind)[1] = 1},
                 v \in VisualFlagBytes}
        \cup {Damage("culling_flags", WFFieldAt(w, i, "culling_flags"), v, i) :
                 i \in 1..Len(w.objs), v \in CullingFlagBytes}
        \cup {Damage("unk0", WFFieldAt(w, i, "unk0") + k, v, i) :
                 i \in 1..Len(w.objs), k \in {0, 3}, v \in Unk0Bytes}
        \cup UNION {{Damage("parent_index", WFFieldAt(w, i, "parent_index"), v, i) :
                        v \in i..(Len(w.objs) + 1)} : i \in 1..Len(w.objs)}
        \cup UNION {{Damage("instance_index", WFFieldAt(w, i, "instance_index"), v, i) :
                        v \in (i..(Len(w.objs) + 1)) \ {w.objs[i].ref}} :
                    i \in {j \in 1..Len(w.objs) : w.objs[j].kind = "INSTANCE"}}
        \cup {Damage("material_index", WFFieldAt(w, i, "material_index"), w.mats + 1, i) :
                 i \in {j \in 1..Len(w.objs) : w.objs[j].kind \in WFHasMaterial}}

Damaged(f, d) ==
    CASE d.kind = "none" -> f
      [] d.kind = "cut" -> SubSeq(f, 1, d.at)
      [] OTHER -> [f EXCEPT ![d.at + 1] = d.val]

DecInit ==
    /\ \E b \in 1..Len(WFSamples) : \E d \in Damages(WFSamples[b]) :
          /\ decIn = [base |-> b, damage |-> d]
          /\ decFile = Damaged(WFFile(WFSamples[b]), d)
    /\ decCur = Cursor(0)
    /\ decPc = "signature"
    /\ decLib = Unset
    /\ decScene = EmptyScene
    /\ PrimIdle /\ MatIdle /\ ExpIdle /\ SlotIdle

SpecDecode == DecInit /\ [][DecNext]_vars

\* the header of the file fails the signature check / the version check
BadSignature == Len(decFile) >= 4 /\ SubSeq(decFile, 1, 4) # LS3D_4DS_SIGNATURE

BadVersion ==
    /\ Len(decFile) >= 6 /\ SubSeq(decFile, 1, 4) = LS3D_4DS_SIGNATURE
    /\ FromLE(SubSeq(decFile, 5, 6)) # LS3D_4DS_VERSION

\* C1: a file whose first 4 bytes are not the magic, or whose u16 version is
\* not 41, makes import_4ds fail with the IOError of that check; the pass never
\* gets past the comparison: nothing but the signature and the version is read (no
\* material count, no table entry), no table is assigned, nothing is
\* materialized.
C1_HeaderRejected ==
    (BadSignature \/ BadVersion) =>
        /\ decPc \in {"signature", "failed"} \/ (BadVersion /\ decPc = "version")
        /\ decPc = "failed" =>
              decCur.err = IF BadSignature THEN "IOError: Invalid 4DS signature"
                           ELSE "IOError: Unsupported 4DS version"
        /\ decCur.pos <= 6
        /\ \A i \in 1..Len(decCur.log) : decCur.log[i][1] \in {"signature", "version"}
        /\ decLib = Unset
        /\ decScene = EmptyScene

C1_Witness ==
    /\ decPc = "failed" /\ BadVersion
    /\ FromLE(SubSeq(decFile, 5, 6)) = 40
    /\ Len(decFile) = Len(WFFile(WFSamples[decIn.base]))
    /\ decCur.err = "IOError: Unsupported 4DS version"

\* C2: decoding a proper prefix of a well-formed file never completes: the
\* pass ends in an error wherever the cut falls, also inside a region the
\* reader skips with a relative seek and at the terminator byte.
C2_TruncatedFileFails ==
    decIn.damage.kind = "cut" =>
        /\ decPc # "done"
        /\ decPc = "failed" => decCur.err # ""
        /\ decPc = "terminator" => Len(decFile) < decCur.pos + 1

C2_Witness ==
    /\ decIn.damage.kind = "cut"
    /\ decPc = "failed" /\ decCur.err = "struct.error"
    /\ decCur.pos > Len(decFile)
    /\ decCur.log[Len(decCur.log)] = <<"normal", 12>>
    /\ decLib.Materials # <<>>

\* C3: an object kind tag outside {1,5,6,7,10,12}, or a visual kind tag outside
\* {0,2,3,4,5,6,8}, at any table position, fails the decode with the IOError
\* "Unsupported object type" / "Unsupported visual type"; no byte after the
\* tag is read, the object is not appended to Libraries.Objects, and nothing
\* is materialized.
C3_UnsupportedVariantRejected ==
    (decIn.damage.kind \in {"object_type", "visual_type"}
        /\ decPc \notin {"signature", "version", "timestamp", "read_materials",
                         "read_objects"}) =>
        /\ decPc = "failed"
        /\ decCur.err = IF decIn.damage.kind = "object_type"
                        THEN "IOError: Unsupported object type"
                        ELSE "IOError: Unsupported visual type"
        /\ decCur.pos = decIn.damage.at + 1
        /\ Len(decLib.Objects) = decIn.damage.obj - 1
        /\ decScene = EmptyScene

\* pass 1 (prepare_bone of every joint) has been run on the table read
AfterPass1 == decPc \notin {"signature", "version", "timestamp", "read_materials",
                           "read_objects", "create_bl_mat", "prepare_bone"}
              /\ decScene.skeleton # <<>>

\* every parent index of the table points at an earlier position, or is 0
ParentsPrecede(objs) == \A k \in 1..Len(objs) : objs[k].parent_index < k

\* the local transformation the fields of the table entry at k describe
LocalOf(objs, k) ==
    << <<"loc", objs[k].location.v>>, <<"rot", objs[k].rotation.v>>,
       <<"sca", objs[k].scale.v>> >>

\* the product of the local transformations along the chain of consecutive
\* JOINT ancestors of the joint at k, topmost ancestor first
RECURSIVE ChainOf(_, _)
ChainOf(objs, k) ==
    LET p == objs[k].parent_index
    IN  IF p \in 1..(k - 1) /\ objs[p].object_type = ObjectType.JOINT
        THEN ChainOf(objs, p) \o LocalOf(objs, k)
        ELSE LocalOf(objs, k)

\* C11: after pass 1 on a table in which every parent precedes its children,
\* the world transformation stored for each JOINT is the product of the local
\* transformations along its chain of consecutive JOINT ancestors, topmost
\* first; a joint without a JOINT parent has exactly its own local one.
C11_JointWorldTransforms ==
    (AfterPass1 /\ ParentsPrecede(decLib.Objects)) =>
        \A k \in 1..Len(decLib.Objects) :
            decLib.Objects[k].object_type = ObjectType.JOINT =>
                decScene.skeleton.transformation[k] = ChainOf(decLib.Objects, k)

\* what the code does on a table with a joint: pass 1 ends at its first joint
\* with the AttributeError of create_transformation, and no transformation
\* is stored
C11_Pass1FailsAtFirstJoint ==
    (decScene.skeleton # <<>> /\ Joints(decLib.Objects) # <<>>) =>
        /\ decPc = "failed" /\ decCur.err = "AttributeError"
        /\ \A k \in 1..Len(decLib.Objects) : decScene.skeleton.transformation[k] = None
        /\ decScene.objects = <<>>

\* both creation passes of import_4ds are over: completed, or ended early
PassesOver == AfterPass1 /\ decPc # "create_bl_obj"

\* an ancestor of the table entry at k is a JOINT
RECURSIVE HasJointAncestor(_, _)
HasJointAncestor(objs, k) ==
    LET p == objs[k].parent_index
    IN  /\ p \in 1..(k - 1)
        /\ objs[p].object_type = ObjectType.JOINT \/ HasJointAncestor(objs, p)

\* C12: in one decode pass every JOINT without a JOINT ancestor is attached
\* to the synthetic root skeleton (Libraries.WorldArmature), which is created
\* at most once per pass; every joint with a JOINT parent is attached to the
\* skeleton of that parent.
C12_JointsOnRootSkeleton ==
    (PassesOver /\ ParentsPrecede(decLib.Objects)) =>
        LET objs == decLib.Objects
            S == decScene.skeleton
        IN  /\ \A k \in 1..Len(objs) :
                  objs[k].object_type = ObjectType.JOINT =>
                      /\ S.armature[k] # NoObject
                      /\ ~HasJointAncestor(objs, k) =>
                            S.armature[k] = Armature(0, "Armature World")
                      /\ (objs[k].parent_index # 0
                            /\ objs[objs[k].parent_index].object_type = ObjectType.JOINT) =>
                            S.armature[k] = S.armature[objs[k].parent_index]
            /\ Cardinality({i \in 1..Len(S.armatures) :
                              S.armatures[i] = Armature(0, "Armature World")}) <= 1

\* what the code does: no joint of any table is ever attached to a skeleton,
\* and the synthetic root skeleton is never created
C12_NoJointAttached ==
    decScene.skeleton # <<>> =>
        /\ \A k \in 1..Len(decLib.Objects) :
              decLib.Objects[k].object_type = ObjectType.JOINT =>
                  decScene.skeleton.armature[k] = NoObject
        /\ \A i \in 1..Len(decScene.skeleton.armatures) :
              decScene.skeleton.armatures[i] # Armature(0, "Armature World")
        /\ decScene.skeleton.bones = <<>>
        /\ decLib.WorldArmature = FALSE

\* the file holds a reference that cannot be resolved: a parent index, an
\* instance index or a material index that was set to a position not before
\* the object's own or past the end of its table, or the instance placed
\* ahead of its owner
BadReference ==
    \/ decIn.damage.kind \in {"parent_index", "instance_index", "material_index"}
    \/ decIn.base = 19 /\ decIn.damage.kind = "none"

DecodedProps(k) ==
    LET S == decScene.skeleton
    IN  IF S.armature_props[k] # None /\ "culling_flags" \in DOMAIN S.armature_props[k]
        THEN S.armature_props[k]
        ELSE S.bl[k]

\* C15: for every 16-bit visual flags value and every 8-bit culling flags
\* value of an object record, also with bits outside the named flags, the
\* decoded object is re-encoded with the identical value: the flag words
\* create_ls3d_object computes from the decoded properties are the file's.
C15_FlagsRoundTrip ==
    (decIn.damage.kind \in {"visual_flags", "culling_flags"} /\ PassesOver) =>
        \A k \in 1..Len(decLib.Objects) :
            decLib.Objects[k].object_type # ObjectType.JOINT =>
                /\ DecodedProps(k) # None
                /\ decLib.Objects[k].object_type = ObjectType.VISUAL =>
                      Flags(DecodedProps(k).visual_flags, VisualFlagProps)
                          = Bits(decLib.Objects[k].visual_flags, 16)
                /\ Flags(DecodedProps(k).culling_flags, CullingFlagProps)
                      = Bits(decLib.Objects[k].culling_flags, 8)

\* what the code does: the decode of a file with an object ends before any
\* flag property is set; an object that was built has the flags of a new
\* Blender object
C15_NoFlagDecoded ==
    decScene.skeleton # <<>> =>
        \A k \in 1..Len(decLib.Objects) :
            \/ DecodedProps(k) = None
            \/ /\ DecodedProps(k).visual_flags = NewObject.visual_flags
               /\ DecodedProps(k).culling_flags = NewObject.culling_flags

\* C18: the unknown 32-bit field of an object record is round-tripped: for
\* every value of the field, the object decoded from the record is
\* re-encoded with the same four bytes.
C18_Unk0RoundTrip ==
    (decIn.damage.kind = "unk0" /\ PassesOver) =>
        \A k \in 1..Len(decLib.Objects) :
            decLib.Objects[k].object_type # ObjectType.JOINT =>
                /\ DecodedProps(k) # None
                /\ LE(ls3d_unk0(DecodedProps(k)), 4) = decLib.Objects[k].unk0

\* what the code does: read_objects keeps the four bytes on the LS3DObject,
\* no Blender object has a property for them
C18_Unk0ReadNotKept ==
    (decIn.damage.kind = "unk0" /\ PassesOver) =>
        /\ Len(decLib.Objects) >= decIn.damage.obj =>
              decLib.Objects[decIn.damage.obj].unk0
                 = SubSeq(decFile, WFFieldAt(WFSamples[decIn.base], decIn.damage.obj, "unk0") + 1,
                          WFFieldAt(WFSamples[decIn.base], decIn.damage.obj, "unk0") + 4)
        /\ \A k \in 1..Len(decLib.Objects) :
              DecodedProps(k) # None => "unk0" \notin DOMAIN DecodedProps(k)

\* the statements of import_4ds that read the header and the two tables
ReadingStages == {"signature", "version", "timestamp", "read_materials", "read_objects"}

\* the bone of the joint at position k has been made in the scene W
HasBone(W, k) == \E i \in 1..Len(W.bones) : W.bones[i] = k

\* the table entry at position k has been built in the scene W: a joint has
\* its bone, any other object its linked bl_obj
Built(objs, W, k) ==
    IF objs[k].object_type = ObjectType.JOINT THEN HasBone(W, k)
    ELSE W.bl[k] # None /\ W.bl[k].linked

\* something of the table entry at position k exists in the scene W
Touched(objs, W, k) ==
    IF objs[k].object_type = ObjectType.JOINT THEN HasBone(W, k) ELSE W.bl[k] # None

\* pass 1 has run for the joint at position k
Prepared(W, k) == W.transformation[k] # None

\* one step of a decode pass keeps the order of the phases: nothing is
\* materialized while the tables are read; the materials are created when
\* both tables are there and before pass 1; pass 1 goes through the joints
\* in table order before anything is built; pass 2 starts when pass 1 has run
\* for every joint and goes through the table in order, no entry twice
PhaseStep ==
    LET objs == decLib.Objects
        js == Joints(objs)
        W == decScene'.skeleton
    IN  /\ decPc \in ReadingStages => decScene = EmptyScene /\ decScene' = EmptyScene
        /\ decScene'.materials # decScene.materials =>
              /\ decPc = "create_bl_mat" /\ decCur.err = ""
              /\ {"Materials", "Objects"} \subseteq decLib.assigned
              /\ decScene.skeleton = <<>> /\ decScene.objects = <<>>
        /\ decPc = "prepare_bone" =>
              /\ Len(decScene.materials) = Len(decLib.Materials)
              /\ decScene.skeleton = <<>>
              /\ \A k \in 1..Len(objs) : ~Touched(objs, W, k)
              /\ \A i \in 1..Len(js) : Prepared(W, js[i]) =>
                    \A j \in 1..(i - 1) : Prepared(W, js[j])
        /\ decPc = "create_bl_obj" =>
              /\ \A i \in 1..Len(js) : Prepared(decScene.skeleton, js[i])
              /\ \A k \in 1..Len(objs) : Touched(objs, W, k) =>
                    \A j \in 1..(k - 1) : Built(objs, W, j)
              /\ \A i, j \in 1..Len(W.bones) : i < j => W.bones[i] < W.bones[j]
        /\ decPc \notin {"prepare_bone", "create_bl_obj"} =>
              decScene'.skeleton = decScene.skeleton

\* the file is a well-formed one: whole, every tag as written and every
\* reference to an earlier position
Undamaged ==
    /\ decIn.damage.kind \in {"none", "visual_flags", "culling_flags", "unk0"}
    /\ \A k \in 1..Len(WFSamples[decIn.base].objs) :
          LET o == WFSamples[decIn.base].objs[k]
          IN  o.parent < k /\ (o.kind = "INSTANCE" => o.ref < k)

\* the objects of the well-formed file
SampleObjects == WFSamples[decIn.base].objs

\* C22: a decode pass runs its phases in a fixed order.  Both tables are
\* decoded before a material or an object is materialized (so nothing is
\* materialized when decoding a table fails), all materials are materialized
\* before joint pass 1, pass 1 has run for every JOINT in table order before
\* pass 2 builds anything, and pass 2 builds every object once, in table
\* order.
C22_PhasesInOrder ==
    /\ [][PhaseStep]_vars
    /\ []((Undamaged /\ decPc \in {"failed", "terminator", "done"}) =>
             /\ decScene.skeleton # <<>>
             /\ \A k \in 1..Len(SampleObjects) :
                   decScene.skeleton.bl[k] # None \/ HasBone(decScene.skeleton, k))

\* The order of the phases is kept in every step of every pass.
C22_OrderKept == [][PhaseStep]_vars

\* What import_4ds builds of a well-formed file with an object: pass 1 ends
\* at the first joint, pass 2 in the first object, with the AttributeError of
\* create_transformation; no second object is touched.
C22_BuildingStopsAtFirstObject ==
    (Undamaged /\ decPc \in {"failed", "terminator", "done"} /\ Len(SampleObjects) > 0) =>
        /\ decPc = "failed" /\ decCur.err = "AttributeError"
        /\ decScene.skeleton # <<>>
        /\ \A k \in 2..Len(SampleObjects) :
              decScene.skeleton.bl[k] = None /\ ~HasBone(decScene.skeleton, k)

\* the JOINT children of the joint at position k, in table order
JointChildren(objs, k) ==
    SelectSeq([i \in 1..Len(objs) |-> i],
              LAMBDA i : objs[i].object_type = ObjectType.JOINT /\ objs[i].parent_index = k)

\* the parent of the table entry at position k is a JOINT
HasJointParent(objs, k) ==
    /\ objs[k].parent_index \in 1..Len(objs)
    /\ objs[objs[k].parent_index].object_type = ObjectType.JOINT

\* C23: in pass 2, on a table in which parents precede children, every JOINT
\* is built and gets a tail position: the world translation of its first
\* JOINT child if it has one, otherwise a point along the direction of its
\* parent joint, which is defined by then.  A JOINT with neither a JOINT
\* parent nor a JOINT child is built as well.
C23_JointTails ==
    (PassesOver /\ Undamaged /\ ParentsPrecede(decLib.Objects)) =>
        \A k \in 1..Len(decLib.Objects) :
            decLib.Objects[k].object_type = ObjectType.JOINT =>
                LET W == decScene.skeleton
                    kids == JointChildren(decLib.Objects, k)
                    p == decLib.Objects[k].parent_index
                IN  /\ HasBone(W, k) /\ W.tail[k] # None
                    /\ kids # <<>> =>
                          W.tail[k] = <<"to_translation", ChainOf(decLib.Objects, Head(kids))>>
                    /\ (kids = <<>> /\ HasJointParent(decLib.Objects, k)) =>
                          W.tail[k] = <<"direction", p>> /\ p \in W.direction

\* What import_4ds does on a table with a joint: the pass ends in pass 1, no
\* bone is made and no tail computed.
C23_NoTailComputed ==
    (decScene.skeleton # <<>> /\ Joints(decLib.Objects) # <<>>) =>
        /\ decPc = "failed"
        /\ decScene.skeleton.bones = <<>>
        /\ \A k \in 1..Len(decLib.Objects) : decScene.skeleton.tail[k] = None

\* the skinned meshes of the table whose LODs carry weighted entries
Skinned ==
    { k \in 1..Len(decLib.Objects) :
        /\ IsSingle(decLib.Objects[k])
        /\ \E l \in 1..Len(decLib.Objects[k].mesh.single_lods) :
              decLib.Objects[k].mesh.single_lods[l] # <<>> }

\* the additions made to the vertex groups of LOD l of the object at k
Additions(k, l) ==
    IF decScene.skeleton = <<>> \/ Len(decScene.skeleton.groups[k]) < l THEN <<>>
    ELSE decScene.skeleton.groups[k][l]

\* C29: for each LOD of a decoded skinned mesh and every weighted entry
\* (joint index j, weight byte w) at position i, vertex i is added with
\* weight (256 - w) / 256, a value in (0, 1], to the vertex group of the joint
\* whose stored joint index is j - 1, and to the group of no other joint.
C29_WeightsToOwnJoint ==
    (decPc \in {"failed", "terminator", "done"} /\ Undamaged) =>
        \A k \in Skinned :
            \A l \in 1..Len(decLib.Objects[k].mesh.single_lods) :
                LET entries == decLib.Objects[k].mesh.single_lods[l]
                    added == Additions(k, l)
                IN  \A i \in 1..Len(entries) :
                        /\ \E a \in 1..Len(added) :
                              /\ added[a].vertex = i - 1
                              /\ added[a].weight = 256 - entries[i].weight
                              /\ added[a].weight \in 1..256
                        /\ \A a \in 1..Len(added) :
                              added[a].vertex = i - 1 =>
                                  decLib.Objects[added[a].joint].mesh.joint_index
                                      = entries[i].joint_index - 1

\* What import_4ds does: the weighted entries of a skinned mesh are read, and
\* no vertex is added to any vertex group, because the pass has ended before
\* SingleMesh.post_create.
C29_NoVertexWeighted ==
    /\ decScene.skeleton # <<>> =>
          \A k \in 1..Len(decLib.Objects) : decScene.skeleton.groups[k] = <<>>
    /\ (decPc \in {"failed", "terminator", "done"} /\ Skinned # {}) => decPc = "failed"

\* the weighted entries of the skinned mesh were read: (1, 0) and (0, 255)
C29_EntriesRead ==
    /\ decPc = "failed" /\ decIn.damage.kind = "none"
    /\ \E k \in Skinned :
          decLib.Objects[k].mesh.single_lods
              = << << [joint_index |-> 1, weight |-> 0],
                      [joint_index |-> 0, weight |-> 255] >> >>

----------------------------------------------------------------------------
(* The Blender scene export_4ds walks (export_4ds.py).  An object is known *)
(* by its position in scene.collection.all_objects; a mesh data block and  *)
(* a material by a number.                                                 *)

\* objects of one scene
MaxObjects == 3

\* bpy.data.meshes after get_bmesh has triangulated them: the vertex count,
\* the triangles (loop vertices, material slot, shading), the material slots
\* and, with a UV layer, the uv of every loop.  Block 2 maps vertex 0 to two
\* different uvs.
MeshData ==
    << [verts |-> 3,
        faces |-> << [loops |-> <<0, 1, 2>>, material_index |-> 0, smooth |-> TRUE] >>,
        materials |-> <<1>>,
        uv |-> <<>>],
       [verts |-> 4,
        faces |-> << [loops |-> <<0, 1, 2>>, material_index |-> 0, smooth |-> TRUE],
                     [loops |-> <<0, 2, 3>>, material_index |-> 1, smooth |-> FALSE] >>,
        materials |-> <<2, 1>>,
        uv |-> << << <<0, 0>>, <<1065353216, 0>>, <<1065353216, 1065353216>> >>,
                  << <<1056964608, 1056964608>>, <<1065353216, 1065353216>>,
                     <<0, 1065353216>> >> >>],
       [verts |-> 4,
        faces |-> << [loops |-> <<0, 1, 2>>, material_index |-> 0, smooth |-> TRUE],
                     [loops |-> <<0, 2, 3>>, material_index |-> 0, smooth |-> TRUE] >>,
        materials |-> <<>>,
        uv |-> << << <<0, 0>>, <<1065353216, 0>>, <<1065353216, 1065353216>> >>,
                  << <<0, 0>>, <<1065353216, 1065353216>>, <<0, 1065353216>> >> >>],
       [verts |-> 4,
        faces |-> << [loops |-> <<0, 1, 2>>, material_index |-> 1, smooth |-> TRUE],
                     [loops |-> <<0, 2, 3>>, material_index |-> 0, smooth |-> TRUE],
                     [loops |-> <<0, 3, 1>>, material_index |-> 1, smooth |-> FALSE] >>,
        materials |-> <<1, 2>>,
        uv |-> << << <<0, 0>>, <<1065353216, 0>>, <<1065353216, 1065353216>> >>,
                  << <<1056964608, 1056964608>>, <<1065353216, 1065353216>>,
                     <<0, 1065353216>> >>,
                  << <<1056964608, 1056964608>>, <<0, 1065353216>>,
                     <<1065353216, 0>> >> >>] >>

\* bpy.data.materials: 1 has a diffuse texture, 2 has no shader node
SceneMaterials ==
    << BlMaterial(TRUE, TRUE, "NONE", [i \in 1..10 |-> i = 6]),
       BlMaterial(FALSE, FALSE, "NONE", [i \in 1..10 |-> FALSE]) >>

\* an object of the scene; parent is a position (0: none), data a mesh block
\* (0: none), lenses the material of each lens (0: none); a component c of
\* the portal colour stands for c / 255
BlObject(type, mesh_type, helper_type, is_lod, is_portal, data, lenses) ==
    [type |-> type, mesh_type |-> mesh_type, helper_type |-> helper_type,
     is_lod |-> is_lod, is_portal |-> is_portal, data |-> data, lenses |-> lenses,
     visual_flags |-> {"a", "g"}, culling_flags |-> {"a", "c"},
     user_defined_properties |-> << <<107, 61, 49>>, <<120>> >>,
     draw_distance |-> 1084227584, billboarding_axis |-> "Y",
     portal_props |-> [flags |-> {"a", "c"}, unknown_a |-> 1065353216,
                       unknown_b |-> 1056964608, color |-> <<0, 0, 0, 0>>],
     empty_display_size |-> 1065353216, target_unknown |-> 7, targets |-> <<3, 4>>,
     name |-> <<>>, parent |-> 0]

\* a user defined property of 127 characters: two of them are joined to a
\* property block of 256
LongLine == [i \in 1..127 |-> 97 + (i % 26)]

\* the objects a user can set up: every mesh type, lights, empties, and an
\* empty with a long property block
BlObjects ==
    { BlObject("MESH", t, "DUMMY", l, FALSE, d, <<>>) :
        t \in {"STANDARD", "BILLBOARD", "SINGLE", "MORPH", "SINGLE_MORPH"},
        l \in BOOLEAN, d \in {1, 2} }
    \cup { BlObject("MESH", "SECTOR", "DUMMY", FALSE, p, 1, <<>>) : p \in BOOLEAN }
    \cup { [BlObject("MESH", "SECTOR", "DUMMY", FALSE, TRUE, 1, <<>>)
              EXCEPT !.portal_props = [flags |-> {"b", "d"}, unknown_a |-> 1056964608,
                                       unknown_b |-> 0, color |-> <<255, 0, 128, 255>>]] }
    \cup { BlObject("MESH", t, "DUMMY", FALSE, FALSE, 1, <<>>) : t \in {"MIRROR", "OCCLUDER"} }
    \cup { BlObject("LIGHT", "STANDARD", "DUMMY", FALSE, FALSE, 0, ls) : ls \in {<<>>, <<2, 0>>} }
    \cup { BlObject("EMPTY", "STANDARD", h, FALSE, FALSE, 0, <<>>) : h \in {"TARGET", "DUMMY"} }
    \cup { [BlObject("EMPTY", "STANDARD", "DUMMY", FALSE, FALSE, 0, <<>>)
              EXCEPT !.user_defined_properties = <<LongLine, LongLine>>] }

\* the most user defined properties of an object of the property scenes
MaxLines == 3

\* lists of user defined properties: lines "", "a" and "b" at any position
PropertyLists ==
    UNION { [1..n -> {<<>>, <<97>>, <<98>>}] : n \in 0..MaxLines }

\* an empty with each of these lists
WithProperties ==
    { [BlObject("EMPTY", "STANDARD", "DUMMY", FALSE, FALSE, 0, <<>>)
         EXCEPT !.user_defined_properties = ps] : ps \in PropertyLists }

\* a billboard with each billboarding axis
Billboards ==
    { [BlObject("MESH", "BILLBOARD", "DUMMY", FALSE, FALSE, 1, <<>>)
         EXCEPT !.billboarding_axis = a] : a \in {"X", "Y", "Z", "XYZ"} }

\* a standard mesh of each mesh data block
MeshObjects ==
    { BlObject("MESH", "STANDARD", "DUMMY", FALSE, FALSE, d, <<>>) : d \in 1..Len(MeshData) }

\* the objects of the larger scenes: a mesh, a LOD of it, an empty
GraphObjects ==
    { BlObject("MESH", "STANDARD", "DUMMY", l, FALSE, 1, <<>>) : l \in BOOLEAN }
    \cup { BlObject("EMPTY", "STANDARD", "DUMMY", FALSE, FALSE, 0, <<>>) }

\* p[i] is the parent of object i: following parents ends at a root
RECURSIVE Rooted(_, _, _)
Rooted(p, i, fuel) ==
    IF p[i] = 0 THEN TRUE ELSE IF fuel = 0 THEN FALSE ELSE Rooted(p, p[i], fuel - 1)

Forests(n) == { p \in [1..n -> 0..n] : \A i \in 1..n : Rooted(p, i, n) }

\* the number of LODs below the first r roots of a LOD scene
RECURSIVE LodsBefore(_, _)
LodsBefore(ls, r) == IF r = 0 THEN 0 ELSE ls[r] + LodsBefore(ls, r - 1)

\* a scene of Len(ls) root meshes sharing one mesh data block, in this order,
\* the r-th with a chain of ls[r] LOD objects below it: the roots come
\* first, then the chains, each LOD the child of the one before it
LodScene(ls) ==
    LET k == Len(ls)
        root(i) == CHOOSE r \in 1..k :
                      k + LodsBefore(ls, r - 1) < i /\ i <= k + LodsBefore(ls, r)
    IN  [i \in 1..(k + LodsBefore(ls, k)) |->
            IF i <= k
            THEN [BlObject("MESH", "STANDARD", "DUMMY", FALSE, FALSE, 1, <<>>)
                    EXCEPT !.name = <<79, 46, 48 + i>>]
            ELSE [BlObject("MESH", "STANDARD", "DUMMY", TRUE, FALSE, 2, <<>>)
                    EXCEPT !.name = <<79, 46, 48 + i>>,
                           !.parent = IF i = k + LodsBefore(ls, root(i) - 1) + 1
                                      THEN root(i) ELSE i - 1]]

\* the longest LOD chain and the most roots of a LOD scene
MaxLods == 2
MaxRoots == 3

LodScenes == UNION { { LodScene(ls) : ls \in [1..k -> 0..MaxLods] } : k \in 2..MaxRoots }

\* the scenes: every object with up to two of them, graphs of up to
\* MaxObjects, and the LOD scenes
Scenes ==
    LET Of(n, objs) == { [i \in 1..n |-> [o[i] EXCEPT !.parent = p[i],
                                                         !.name = <<79, 46, 48 + i>>]] :
                            o \in [1..n -> objs], p \in Forests(n) }
    IN  Of(1, BlObjects \cup Billboards \cup WithProperties \cup MeshObjects) \cup Of(2, BlObjects)
        \cup UNION { Of(n, GraphObjects) : n \in 3..MaxObjects }
        \cup LodScenes

\* bl_obj.children
children(scene, b) ==
    SelectSeq([i \in 1..Len(scene) |-> i], LAMBDA i : scene[i].parent = b)

\* get_root_objects: root_objects
get_root_objects(scene) ==
    SelectSeq([i \in 1..Len(scene) |-> i],
              LAMBDA i : /\ scene[i].parent = 0
                         /\ \/ scene[i].type \in {"MESH", "EMPTY"}
                            \/ scene[i].type = "LIGHT" /\ Len(scene[i].lenses) > 0)

\* x in list
In(x, list) == \E i \in 1..Len(list) : list[i] = x

\* list.index(x), counted from 0
index(list, x) == (CHOOSE i \in 1..Len(list) : list[i] = x /\ \A j \in 1..(i - 1) : list[j] # x) - 1

\* Libraries.Objects.index(obj): an LS3DObject is found by the scene object it wraps
index_of(objs, b) == index([i \in 1..Len(objs) |-> objs[i].bl], b)

\* faulty variant: appended without the membership test
append_always(list, x) == Append(list, x)

\* if mat not in Libraries.Materials: Libraries.Materials.append(mat)
append_new(list, x) == IF In(x, list) THEN list ELSE Append(list, x)

\* get_all_used_mats, the loop over the polygons from the k-th on
RECURSIVE used_mats_from(_, _, _)
used_mats_from(Materials, mesh, k) ==
    IF k > Len(mesh.faces) THEN Materials
    ELSE used_mats_from(append_new(Materials, mesh.materials[mesh.faces[k].material_index + 1]),
                        mesh, k + 1)

get_all_used_mats(Materials, mesh) ==
    IF Len(mesh.materials) > 0 THEN used_mats_from(Materials, mesh, 1) ELSE Materials

\* mirror_props.reflection_axis: the first empty child, None (0) without one
reflection_axis(scene, b) ==
    LET axes == SelectSeq(children(scene, b), LAMBDA i : scene[i].type = "EMPTY")
    IN  IF axes = <<>> THEN 0 ELSE Head(axes)

\* Libraries as export_4ds resets them
EmptyLibraries ==
    [Materials |-> <<>>, Objects |-> <<>>, MeshInstances |-> <<>>,
     MeshInstancesParents |-> <<>>]

\* an LS3DMesh of a class; Sector carries portals, the StandardMesh family
\* instance_index and lods (None is <<>>: no list assigned is ever empty)
Mesh(class, instance_index, lods, portals) ==
    [class |-> class, instance_index |-> instance_index, lods |-> lods, portals |-> portals]

RECURSIVE get_lods(_, _, _, _)

\* get_lods as it would be without the test of the level: every child that
\* is a LOD is taken
get_lods_every_lod(scene, kids0, level, acc0) ==
    Let(<<kids0, acc0>>, LAMBDA a :
        IF a[1] = <<>> THEN a[2]
        ELSE LET child == Head(a[1])
                 acc == a[2]
             IN  get_lods(scene, Tail(a[1]), level,
                   IF scene[child].is_lod
                   THEN Let(get_lods(scene, children(scene, child), level + 1,
                                     [acc EXCEPT !.lods = Append(@, child)]),
                            LAMBDA r : [r EXCEPT !.Materials =
                                get_all_used_mats(@, MeshData[scene[child].data])])
                   ELSE IF level = 0 THEN [acc EXCEPT !.children = Append(@, child)]
                   ELSE acc))

\* get_lods(bl_obj, level) over the children kids of bl_obj; acc holds lods,
\* children and Libraries.Materials
get_lods(scene, kids0, level, acc0) ==
    Let(<<kids0, acc0>>, LAMBDA a :
        IF a[1] = <<>> THEN a[2]
        ELSE LET child == Head(a[1])
                 acc == a[2]
             IN  get_lods(scene, Tail(a[1]), level,
                   IF scene[child].is_lod
                   THEN IF Len(acc.lods) = level
                        THEN Let(get_lods(scene, children(scene, child), level + 1,
                                          [acc EXCEPT !.lods = Append(@, child)]),
                                 LAMBDA r : [r EXCEPT !.Materials =
                                     get_all_used_mats(@, MeshData[scene[child].data])])
                        ELSE acc
                   ELSE IF level = 0 THEN [acc EXCEPT !.children = Append(@, child)]
                   ELSE acc))

\* create_ls3d_standard_mesh as it would be were the LODs of an instance
\* assigned to base_obj whether or not base_obj has LODs already
create_ls3d_standard_mesh_last_wins(scene, lib, b, class) ==
    LET data == scene[b].data
        instanced == In(data, lib.MeshInstances)
        base_obj == IF instanced
                    THEN lib.MeshInstancesParents[index(lib.MeshInstances, data) + 1]
                    ELSE b
        instance_index == IF instanced THEN index_of(lib.Objects, base_obj) + 1 ELSE 0
    IN  Let(get_lods(scene, children(scene, b), 0,
                     [lods |-> <<>>, children |-> <<>>,
                      Materials |-> get_all_used_mats(lib.Materials, MeshData[data])]),
            LAMBDA g :
        [mesh |-> Mesh(class, instance_index, IF instanced THEN <<>> ELSE g.lods, <<>>),
         children |-> g.children,
         lib |-> [lib EXCEPT
            !.Materials = g.Materials,
            !.MeshInstances = IF instanced THEN @ ELSE Append(@, data),
            !.MeshInstancesParents = IF instanced THEN @ ELSE Append(@, b),
            !.Objects = IF instanced /\ Len(g.lods) > 0
                        THEN [@ EXCEPT ![instance_index].mesh.lods = g.lods]
                        ELSE @]])

\* create_ls3d_standard_mesh for the scene object b, which will be appended
\* to Libraries.Objects next: the mesh, the children and the Libraries after
create_ls3d_standard_mesh(scene, lib, b, class) ==
    LET data == scene[b].data
        instanced == In(data, lib.MeshInstances)
        base_obj == IF instanced
                    THEN lib.MeshInstancesParents[index(lib.MeshInstances, data) + 1]
                    ELSE b
        instance_index == IF instanced THEN index_of(lib.Objects, base_obj) + 1 ELSE 0
    IN  Let(get_lods(scene, children(scene, b), 0,
                     [lods |-> <<>>, children |-> <<>>,
                      Materials |-> get_all_used_mats(lib.Materials, MeshData[data])]),
            LAMBDA g :
        [mesh |-> Mesh(class, instance_index, IF instanced THEN <<>> ELSE g.lods, <<>>),
         children |-> g.children,
         lib |-> [lib EXCEPT
            !.Materials = g.Materials,
            !.MeshInstances = IF instanced THEN @ ELSE Append(@, data),
            !.MeshInstancesParents = IF instanced THEN @ ELSE Append(@, b),
            !.Objects = IF instanced /\ Len(g.lods) > 0
                           /\ @[instance_index].mesh.lods = <<>>
                        THEN [@ EXCEPT ![instance_index].mesh.lods = g.lods]
                        ELSE @]])

\* create_ls3d_sector: children that are portals become Portal records (one
\* per child with a polygon, from its first polygon, with the literal colour
\* 0, 0, 0, 0), the others stay children
create_ls3d_sector(scene, b) ==
    LET is_portal(i) == scene[i].mesh_type = "SECTOR" /\ scene[i].is_portal
        kids == children(scene, b)
        portal(i) ==
            [flags |-> Flags(scene[i].portal_props.flags, PortalFlagProps),
             unk0 |-> scene[i].portal_props.unknown_a,
             unk1 |-> scene[i].portal_props.unknown_b,
             color |-> <<0, 0, 0, 0>>,
             positions |-> MeshData[scene[i].data].faces[1].loops,
             bl |-> i]
        with_polygon == SelectSeq(kids, LAMBDA i : is_portal(i) /\ scene[i].data # 0
                                                   /\ Len(MeshData[scene[i].data].faces) > 0)
    IN  [mesh |-> Mesh("Sector", 0, <<>>, [k \in 1..Len(with_polygon) |-> portal(with_polygon[k])]),
         children |-> SelectSeq(kids, LAMBDA i : ~is_portal(i))]

\* get_obj_and_visual_type: <<ObjectType, VisualType>>, -1 for None
get_obj_and_visual_type(o) ==
    IF o.type = "MESH"
    THEN CASE o.mesh_type = "STANDARD" -> <<ObjectType.VISUAL, VisualType.STANDARD_MESH>>
           [] o.mesh_type = "SECTOR" -> <<ObjectType.SECTOR, -1>>
           [] o.mesh_type = "OCCLUDER" -> <<ObjectType.OCCLUDER, -1>>
           [] o.mesh_type = "BILLBOARD" -> <<ObjectType.VISUAL, VisualType.BILLBOARD>>
           [] o.mesh_type = "SINGLE" -> <<ObjectType.VISUAL, VisualType.SINGLE_MESH>>
           [] o.mesh_type = "SINGLE_MORPH" -> <<ObjectType.VISUAL, VisualType.SINGLE_MORPH>>
           [] o.mesh_type = "MORPH" -> <<ObjectType.VISUAL, VisualType.MORPH>>
           [] o.mesh_type = "MIRROR" -> <<ObjectType.VISUAL, VisualType.MIRROR>>
    ELSE IF o.type = "LIGHT" THEN <<ObjectType.VISUAL, VisualType.LENS>>
    ELSE IF o.type = "EMPTY" /\ o.helper_type = "TARGET" THEN <<ObjectType.TARGET, -1>>
    ELSE <<ObjectType.DUMMY, -1>>

\* faulty variant: the position of the parent counted from 0
parent_index_from_zero(Objects, ls3d_parent) ==
    IF ls3d_parent # 0 THEN index_of(Objects, ls3d_parent) ELSE 0

\* parent_index = Libraries.Objects.index(ls3d_parent) + 1, 0 without a parent
parent_index(Objects, ls3d_parent) ==
    IF ls3d_parent # 0 THEN index_of(Objects, ls3d_parent) + 1 ELSE 0

\* b.name.replace(".", "_")
replace_dots(name) == [i \in 1..Len(name) |-> IF name[i] = 46 THEN 95 ELSE name[i]]

\* for prop in props.user_defined_properties: "\r\n" is put before the
\* content of prop if the string built so far is not empty
RECURSIVE join_properties_loop(_, _)
join_properties_loop(props, properties) ==
    IF props = <<>> THEN properties
    ELSE join_properties_loop(Tail(props),
            (IF properties # <<>> THEN properties \o <<13, 10>> ELSE properties)
            \o Head(props))

\* create_ls3d_object: properties, from the user defined properties
join_properties(props) == join_properties_loop(props, <<>>)

\* the class create_ls3d_standard_mesh instantiates for a visual type
standard_mesh_class(visual_type) ==
    CASE visual_type = VisualType.STANDARD_MESH -> "StandardMesh"
      [] visual_type = VisualType.BILLBOARD -> "Billboard"
      [] visual_type = VisualType.SINGLE_MESH -> "SingleMesh"
      [] visual_type = VisualType.MORPH -> "Morph"
      [] visual_type = VisualType.SINGLE_MORPH -> "SingleMorph"

\* create_ls3d_lens: the materials of the lenses join Libraries.Materials
RECURSIVE lens_mats(_, _)
lens_mats(Materials, lenses) ==
    IF lenses = <<>> THEN Materials
    ELSE lens_mats(IF Head(lenses) # 0 THEN append_new(Materials, Head(lenses)) ELSE Materials,
                   Tail(lenses))

\* create_ls3d_object: the LS3DObject of scene object b under ls3d_parent
\* (a scene object, 0 for None), and the Libraries after
create_ls3d_object(scene, lib, b, ls3d_parent) ==
    LET o == scene[b]
        types == get_obj_and_visual_type(o)
        obj_type == types[1]
        visual_type == types[2]
        all == children(scene, b)
        plain(class) == [mesh |-> Mesh(class, 0, <<>>, <<>>), children |-> all, lib |-> lib]
        made == CASE obj_type = ObjectType.VISUAL /\ visual_type = VisualType.LENS ->
                       [plain("Lens") EXCEPT !.lib.Materials = lens_mats(@, o.lenses)]
                  [] obj_type = ObjectType.VISUAL /\ visual_type = VisualType.MIRROR ->
                       [plain("Mirror") EXCEPT !.children =
                           SelectSeq(all, LAMBDA i : i # reflection_axis(scene, b))]
                  [] obj_type = ObjectType.VISUAL
                     /\ visual_type \notin {VisualType.LENS, VisualType.MIRROR} ->
                       create_ls3d_standard_mesh(scene, lib, b, standard_mesh_class(visual_type))
                  [] obj_type = ObjectType.DUMMY -> plain("Dummy")
                  [] obj_type = ObjectType.SECTOR ->
                       create_ls3d_sector(scene, b) @@ [lib |-> lib]
                  [] obj_type = ObjectType.OCCLUDER -> plain("Occluder")
                  [] obj_type = ObjectType.TARGET -> plain("Target")
    IN  Let(made, LAMBDA m :
        [lib |-> m.lib,
         obj |-> [object_type |-> obj_type, visual_type |-> visual_type,
                  visual_flags |-> Flags(o.visual_flags, VisualFlagProps),
                  parent_index |-> parent_index(lib.Objects, ls3d_parent),
                  unk0 |-> ls3d_unk0(o),
                  culling_flags |-> Flags(o.culling_flags, CullingFlagProps),
                  name |-> replace_dots(o.name),
                  properties |-> join_properties(o.user_defined_properties),
                  mesh |-> m.mesh, bl |-> b, children |-> m.children]])

\* create_recursively(parent, children): each child is created and appended,
\* then its own children, before the next child
RECURSIVE create_recursively(_, _, _, _)
create_recursively(scene, lib0, parent, kids0) ==
    Let(<<lib0, kids0>>, LAMBDA a :
        IF a[2] = <<>> THEN a[1]
        ELSE Let(create_ls3d_object(scene, a[1], Head(a[2]), parent), LAMBDA r :
                 create_recursively(scene,
                     create_recursively(scene, [r.lib EXCEPT !.Objects = Append(@, r.obj)],
                                        r.obj.bl, r.obj.children),
                     parent, Tail(a[2]))))

\* create_ls3d_objects: the roots in order, each followed by its subtree
create_ls3d_objects(scene, lib, root_objects) == create_recursively(scene, lib, 0, root_objects)

----------------------------------------------------------------------------
(* The writers of the object records (_4ds_utils.py)                       *)

\* vert.co, vert.normal and face.normal of the sample geometry
Co(v) == <<3 * v + 1, 3 * v + 2, 3 * v + 3>>
VertNormal(v) == <<100 + v, 0, 1065353216>>
FaceNormal(k) == <<0, 200 + k, 1065353216>>

\* draw_distance ** 2 on the sample distances 0.0 and 5.0
Squared(x) == IF x = 1084227584 THEN 1103626240 ELSE 0

\* 1.0 - v on the sample uvs 0.0, 0.5 and 1.0
OneMinus(v) == IF v = 0 THEN 1065353216 ELSE IF v = 1065353216 THEN 0 ELSE v

\* struct.pack("<f", -x) for a positive x: the sign bit set
PackNegative(x) == [LE(x, 4) EXCEPT ![4] = @ + 128]

\* a writer's outcome: the bytes it wrote and the exception it raised
Wrote(bytes) == [bytes |-> bytes, err |-> ""]
Raised(bytes, err) == [bytes |-> bytes, err |-> err]

\* write_lod with a UV layer, from the k-th loop (counted from 0) on: a vertex
\* is reused when its first copy carries the same uv, else added again
RECURSIVE split_loops(_, _, _)
\* faulty variant: a vertex met before is reused whatever uv its copy carries
split_loops_by_vertex(mesh, k, acc) ==
    Let(acc, LAMBDA a :
        IF k >= 3 * Len(mesh.faces) THEN a
        ELSE LET fi == (k \div 3) + 1
                 face == mesh.faces[fi]
                 vert == face.loops[(k % 3) + 1]
                 uv == mesh.uv[fi][(k % 3) + 1]
                 in_list == In(vert, a.positions)
                 slot == face.material_index + 1
             IN  split_loops(mesh, k + 1,
                   IF in_list
                   THEN [a EXCEPT !.submeshes[slot] = Append(@, index(a.positions, vert))]
                   ELSE [positions |-> Append(a.positions, vert),
                         normals |-> Append(a.normals, IF face.smooth THEN VertNormal(vert)
                                                       ELSE FaceNormal(fi)),
                         uvs |-> Append(a.uvs, uv),
                         submeshes |-> [a.submeshes EXCEPT ![slot] =
                                           Append(@, Len(a.positions))]]))

split_loops(mesh, k, acc) ==
    Let(acc, LAMBDA a :
        IF k >= 3 * Len(mesh.faces) THEN a
        ELSE LET fi == (k \div 3) + 1
                 face == mesh.faces[fi]
                 vert == face.loops[(k % 3) + 1]
                 uv == mesh.uv[fi][(k % 3) + 1]
                 in_list == In(vert, a.positions)
                            /\ uv = a.uvs[index(a.positions, vert) + 1]
                 slot == face.material_index + 1
             IN  split_loops(mesh, k + 1,
                   IF in_list
                   THEN [a EXCEPT !.submeshes[slot] = Append(@, index(a.positions, vert))]
                   ELSE [positions |-> Append(a.positions, vert),
                         normals |-> Append(a.normals, IF face.smooth THEN VertNormal(vert)
                                                       ELSE FaceNormal(fi)),
                         uvs |-> Append(a.uvs, uv),
                         submeshes |-> [a.submeshes EXCEPT ![slot] =
                                           Append(@, Len(a.positions))]]))

\* write_lod without a UV layer: the vertices as they are, each face's loops
\* appended to the submesh of its material slot
plain_loops(mesh, mat_count) ==
    [positions |-> [i \in 1..mesh.verts |-> i - 1],
     normals |-> [i \in 1..mesh.verts |-> VertNormal(i - 1)],
     uvs |-> <<>>,
     submeshes |-> [m \in 1..mat_count |->
        Flatten([k \in 1..Len(mesh.faces) |->
            IF mesh.faces[k].material_index + 1 = m THEN mesh.faces[k].loops ELSE <<>>])]]

\* StandardMesh.write, write_lod(bl_obj)
write_lod(scene, Materials, b) ==
    LET mesh == MeshData[scene[b].data]
        mats == mesh.materials
        no_mats == Len(mats) = 0
        mat_count == IF no_mats THEN 1 ELSE Len(mats)
    IN  Let(IF Len(mesh.uv) > 0
            THEN split_loops(mesh, 0, [positions |-> <<>>, normals |-> <<>>, uvs |-> <<>>,
                                       submeshes |-> [m \in 1..mat_count |-> <<>>]])
            ELSE plain_loops(mesh, mat_count),
            LAMBDA g :
        LET vertex(i) ==
                write_vector3(Co(g.positions[i])) \o write_vector3(g.normals[i])
                \o (IF g.uvs # <<>> THEN Pack(<<g.uvs[i][1], OneMinus(g.uvs[i][2])>>, 4)
                    ELSE Pack(<<1065353216, 0>>, 4))
            submesh(i) ==
                LET sm == g.submeshes[i]
                    face_count == Len(sm) \div 3
                IN  IF Len(sm) = 0 THEN <<>>
                    ELSE LE(face_count, 2)
                         \o Flatten([j \in 1..face_count |->
                               Pack(<<sm[3 * j], sm[3 * j - 1], sm[3 * j - 2]>>, 2)])
                         \o LE(IF no_mats THEN 0 ELSE index(Materials, mats[i]) + 1, 2)
        IN  Pack(<<Squared(scene[b].draw_distance)>>, 4) \o LE(0, 4)
            \o LE(Len(g.positions), 2)
            \o Flatten([i \in 1..Len(g.positions) |-> vertex(i)])
            \o LE(Cardinality({i \in 1..mat_count : Len(g.submeshes[i]) > 0}), 1)
            \o Flatten([i \in 1..mat_count |-> submesh(i)]))

\* StandardMesh.write: the instance index and, for an owner, every LOD
StandardMesh_write(scene, Materials, obj) ==
    LE(obj.mesh.instance_index, 2)
    \o (IF obj.mesh.instance_index # 0 THEN <<>>
        ELSE LE(1 + Len(obj.mesh.lods), 1)
             \o write_lod(scene, Materials, obj.bl)
             \o Flatten([i \in 1..Len(obj.mesh.lods) |->
                            write_lod(scene, Materials, obj.mesh.lods[i])]))

BillboardAxis == [X |-> 0, Z |-> 1, Y |-> 2]

\* Billboard.write
Billboard_write(scene, Materials, obj) ==
    LET billboarding_axis == scene[obj.bl].billboarding_axis
        axis == IF billboarding_axis = "X" THEN BillboardAxis.X
                ELSE IF billboarding_axis = "Y" THEN BillboardAxis.Y ELSE BillboardAxis.Z
    IN  StandardMesh_write(scene, Materials, obj)
        \o LE(axis, 4) \o LE(IF billboarding_axis # "XYZ" THEN 1 ELSE 0, 1)

\* LS3DObject.get_bbox: the component-wise minimum and maximum of the corners
\* of bl_obj.bound_box, which bound the vertices of the mesh
get_bbox(mesh) ==
    LET least(S) == CHOOSE x \in S : \A y \in S : x <= y
        most(S) == CHOOSE x \in S : \A y \in S : x >= y
        comp(i) == { Co(v)[i] : v \in 0..(mesh.verts - 1) }
    IN  << [i \in 1..3 |-> least(comp(i))], [i \in 1..3 |-> most(comp(i))] >>

\* vert_count, face_count are written by the caller; then the vertices as
\* vector4 and the faces
write_geometry(mesh) ==
    Flatten([v \in 1..mesh.verts |-> write_vector4(Co(v - 1))])
    \o Flatten([k \in 1..Len(mesh.faces) |-> write_face(mesh.faces[k].loops)])

\* create_transformation of the reflection axis' matrix_local
AxisMatrix == [i \in 1..4 |-> [j \in 1..4 |-> IF i = j THEN 1065353216 ELSE 4 * i + j]]

\* Mirror.write; without a reflection axis Matrix().identity() is None and
\* write_matrix4x4 raises on mat.copy()
Mirror_write(scene, obj) ==
    LET mesh == MeshData[scene[obj.bl].data]
        bbox == get_bbox(mesh)
        head == write_vector4(bbox[1]) \o write_vector4(bbox[2])
                \o Pack(<<0, 0, 0, 0>>, 4)
    IN  IF reflection_axis(scene, obj.bl) = 0 THEN Raised(head, "AttributeError")
        ELSE Wrote(head \o write_matrix4x4(AxisMatrix)
                   \o Pack(<<0, 0, 0>>, 4) \o LE(0, 4) \o Pack(<<1120403456>>, 4)
                   \o LE(mesh.verts, 4) \o LE(Len(mesh.faces), 4) \o write_geometry(mesh))

SectorFlags ==
    [UNKNOWN0 |-> {0}, UNKNOWN4 |-> {5}, UNKNOWN3 |-> {6}, UNKNOWN1 |-> {8}, UNKNOWN2 |-> {11}]

\* Sector.write: flags, unknown, counts, bounding box, geometry, portals
Sector_write(scene, obj) ==
    LET mesh == MeshData[scene[obj.bl].data]
        bbox == get_bbox(mesh)
        flags == Flags({"a", "b"}, [a |-> SectorFlags.UNKNOWN0, b |-> SectorFlags.UNKNOWN1,
                                   c |-> SectorFlags.UNKNOWN2, d |-> SectorFlags.UNKNOWN3,
                                   e |-> SectorFlags.UNKNOWN4])
        portal(p) ==
            LE(Len(p.positions), 1) \o Pack(<<0, 1065353216, 0>>, 4)
            \o Pack(<<1073741824>>, 4) \o PackFlags(p.flags, 4)
            \o Pack(<<p.unk0, p.unk1>>, 4) \o LE(0, 4)
            \o Flatten([i \in 1..Len(p.positions) |->
                  LET co == Co(p.positions[i])
                  IN  Pack(<<co[1], co[3], co[2], 0>>, 4)])
    IN  PackFlags(flags, 4) \o LE(0, 4) \o LE(mesh.verts, 4) \o LE(Len(mesh.faces), 4)
        \o write_vector4(bbox[1]) \o write_vector4(bbox[2])
        \o write_geometry(mesh)
        \o LE(Len(obj.mesh.portals), 1)
        \o Flatten([i \in 1..Len(obj.mesh.portals) |-> portal(obj.mesh.portals[i])])

\* Dummy.write
Dummy_write(scene, obj) ==
    LET display_size == scene[obj.bl].empty_display_size
    IN  PackNegative(display_size) \o PackNegative(display_size) \o PackNegative(display_size)
        \o LE(0, 4) \o Pack(<<display_size, display_size, display_size, 0>>, 4)

\* Occluder.write
Occluder_write(scene, obj) ==
    LET mesh == MeshData[scene[obj.bl].data]
    IN  LE(mesh.verts, 4) \o LE(Len(mesh.faces), 4) \o write_geometry(mesh)

\* Lens.write
Lens_write(scene, Materials, obj) ==
    LET lenses == scene[obj.bl].lenses
    IN  LE(Len(lenses), 1)
        \o Flatten([i \in 1..Len(lenses) |->
              Pack(<<1056964608, 1065353216>>, 4)
              \o LE(IF lenses[i] # 0 THEN index(Materials, lenses[i]) + 1 ELSE 0, 2)])

\* Target.write
Target_write(scene, obj) ==
    LET props == scene[obj.bl]
    IN  LE(props.target_unknown, 2) \o LE(Len(props.targets), 1) \o Pack(props.targets, 2)

\* self.mesh.write(self, file): the write of the mesh's class; Morph has none
mesh_write(scene, Materials, obj) ==
    LET class == obj.mesh.class
    IN  CASE class \in {"StandardMesh", "SingleMesh", "SingleMorph"} ->
               Wrote(StandardMesh_write(scene, Materials, obj))
          [] class = "Billboard" -> Wrote(Billboard_write(scene, Materials, obj))
          [] class = "Morph" -> Raised(<<>>, "AttributeError")
          [] class = "Lens" -> Wrote(Lens_write(scene, Materials, obj))
          [] class = "Mirror" -> Mirror_write(scene, obj)
          [] class = "Sector" -> Wrote(Sector_write(scene, obj))
          [] class = "Dummy" -> Wrote(Dummy_write(scene, obj))
          [] class = "Occluder" -> Wrote(Occluder_write(scene, obj))
          [] class = "Target" -> Wrote(Target_write(scene, obj))

\* matrix_local.to_translation() / to_quaternion() / to_scale() of scene object b
Location(b) == <<b, b + 1, b + 2>>
Rotation(b) == <<1065353216, b, 0, b + 3>>
Scale(b) == <<1065353216, 1073741824, 1065353216>>

\* LS3DObject.export: the header fields, then the mesh
LS3DObject_export(scene, Materials, obj) ==
    LET header ==
            LE(obj.object_type, 1)
            \o (IF obj.object_type = ObjectType.VISUAL
                THEN LE(obj.visual_type, 1) \o PackFlags(obj.visual_flags, 2) ELSE <<>>)
            \o LE(obj.parent_index, 2)
            \o write_vector3(Location(obj.bl)) \o write_quaternion(Rotation(obj.bl))
            \o write_vector3(Scale(obj.bl))
            \o LE(obj.unk0, 4) \o PackFlags(obj.culling_flags, 1)
        name == write_presized_string(obj.name)
        properties == write_presized_string(obj.properties)
    IN  IF name.err # "" THEN Raised(header, name.err)
        ELSE IF properties.err # "" THEN Raised(header \o name.bytes, properties.err)
        ELSE Let(mesh_write(scene, Materials, obj), LAMBDA w :
                 Raised(header \o name.bytes \o properties.bytes \o w.bytes, w.err))

\* for obj in Libraries.Objects: obj.export(file), from position k on; the
\* first exception ends the loop with the bytes written so far
RECURSIVE export_objects(_, _, _, _)
export_objects(scene, lib, k, acc) ==
    Let(acc, LAMBDA a :
        IF k > Len(lib.Objects) \/ a.err # "" THEN a
        ELSE Let(LS3DObject_export(scene, lib.Materials, lib.Objects[k]), LAMBDA w :
                 export_objects(scene, lib, k + 1,
                    [out |-> a.out \o w.bytes,
                     marks |-> IF w.err = ""
                               THEN Append(a.marks, [first |-> Len(a.out),
                                                     last |-> Len(a.out) + Len(w.bytes),
                                                     obj |-> lib.Objects[k]])
                               ELSE a.marks,
                     err |-> w.err])))

----------------------------------------------------------------------------
(* export_4ds (export_4ds.py): the encode pass, one action per statement   *)
(* group, and import_4ds opening the file it wrote.                        *)

\* int(timestamp(now())) * 10000000 + 116444736000000000 as "<Q": the clock's
\* bytes, which import_4ds seeks over
Filetime == <<0, 128, 62, 213, 222, 177, 157, 1>>

ExpInit ==
    /\ expScene \in Scenes
    /\ expPc = "header"
    /\ expLib = <<>>
    /\ expOut = <<>>
    /\ expMarks = <<>>
    /\ expErr = ""
    /\ PrimIdle /\ MatIdle /\ DecIdle /\ SlotIdle

\* file = OStream(filepath); the signature, the version, the filetime
ExpHeader ==
    /\ expPc = "header"
    /\ expOut' = LS3D_4DS_SIGNATURE \o LE(LS3D_4DS_VERSION, 2) \o Filetime
    /\ expPc' = "create_ls3d_objects"
    /\ UNCHANGED <<expScene, expLib, expMarks, expErr, nonExpVars>>

\* Libraries.* = []; get_root_objects(); create_ls3d_objects(...)
ExpCreateObjects ==
    /\ expPc = "create_ls3d_objects"
    /\ expLib' = create_ls3d_objects(expScene, EmptyLibraries, get_root_objects(expScene))
    /\ expPc' = "materials"
    /\ UNCHANGED <<expScene, expOut, expMarks, expErr, nonExpVars>>

\* the material count and write_ls3d_material of every material
ExpWriteMaterials ==
    /\ expPc = "materials"
    /\ expOut' = expOut \o LE(Len(expLib.Materials), 2)
                 \o Flatten([i \in 1..Len(expLib.Materials) |->
                       FieldBytes(write_ls3d_material(SceneMaterials[expLib.Materials[i]]))])
    /\ expPc' = "objects"
    /\ UNCHANGED <<expScene, expLib, expMarks, expErr, nonExpVars>>

\* the object count and obj.export(file) of every object
ExpWriteObjects ==
    /\ expPc = "objects"
    /\ LET w == export_objects(expScene, expLib, 1,
                    [out |-> expOut \o LE(Len(expLib.Objects), 2), marks |-> <<>>, err |-> ""])
       IN  /\ expOut' = w.out
           /\ expMarks' = w.marks
           /\ expErr' = w.err
           /\ expPc' = IF w.err = "" THEN "close" ELSE "failed"
    /\ UNCHANGED <<expScene, expLib, nonExpVars>>

\* the terminator, file.close(), del Libraries.*
ExpClose ==
    /\ expPc = "close"
    /\ expOut' = expOut \o LE(0, 1)
    /\ expLib' = <<>>
    /\ expPc' = "done"
    /\ UNCHANGED <<expScene, expMarks, expErr, nonExpVars>>

\* import_4ds(filepath) of the file the pass wrote: file = IStream(filepath)
DecOpen ==
    /\ expPc = "done"
    /\ decPc = "idle"
    /\ decIn' = [base |-> 0, damage |-> Damage("none", 0, 0, 0)]
    /\ decFile' = expOut
    /\ decCur' = Cursor(0)
    /\ decPc' = "signature"
    /\ decLib' = Unset
    /\ decScene' = EmptyScene
    /\ UNCHANGED <<nonDecVars>>

ExpNext ==
    \/ ExpHeader \/ ExpCreateObjects \/ ExpWriteMaterials \/ ExpWriteObjects \/ ExpClose

SpecExport == ExpInit /\ [][ExpNext \/ DecOpen \/ DecNext]_vars

----------------------------------------------------------------------------
(* Properties of the encode pass                                           *)

\* the object table of the pass: Libraries.Objects once create_ls3d_objects
\* has run, the objects written once Libraries is deleted
Table ==
    IF expPc \in {"idle", "header", "create_ls3d_objects"} THEN <<>>
    ELSE IF expLib # <<>> THEN expLib.Objects
    ELSE [i \in 1..Len(expMarks) |-> expMarks[i].obj]

\* the tags an object is known by in the file
Kind(o) == <<o.object_type, IF o.object_type = ObjectType.VISUAL THEN o.visual_type ELSE 0>>

\* the classes of the table's meshes
Classes == { Table[i].mesh.class : i \in 1..Len(Table) }

MirrorWithoutAxis ==
    \E i \in 1..Len(Table) :
        Table[i].mesh.class = "Mirror" /\ reflection_axis(expScene, Table[i].bl) = 0

\* the decoded table lies where the encoded one was written, kind by kind
Aligned ==
    /\ Len(decLib.Objects) = Len(expMarks)
    /\ \A i \in 1..Len(expMarks) :
          LET r == decLib.Objects[i]
              w == expMarks[i]
          IN  /\ r.first = w.first /\ r.last = w.last
              /\ Kind(r) = Kind(w.obj)
              /\ r.parent_index = w.obj.parent_index
              /\ w.obj.object_type = ObjectType.VISUAL =>
                    r.visual_flags = FromLE(PackFlags(w.obj.visual_flags, 2))

\* import_4ds failed in its readers: before the creation passes began
ReadFailed == decPc = "failed" /\ decScene.skeleton = <<>>

\* C4: for every kind of object the encoder emits, the encode pass succeeds
\* and import_4ds of the file it wrote stays aligned: no reader fails, and
\* the table it reads has the same number of objects, each spanning the bytes
\* its export wrote, with the same kinds and (for VISUAL) visual flags.
C4_EncodedTableDecodes ==
    /\ expPc # "failed"
    /\ ~ReadFailed
    /\ decPc \in {"create_bl_mat", "prepare_bone", "create_bl_obj", "terminator"} => Aligned
    /\ decPc = "done" => decCur.pos = Len(decFile)

\* C4, for the kinds whose write matches their read: what C4 states holds of
\* every scene without a MORPH, SINGLE or SINGLE_MORPH mesh, without a
\* mirror that has no reflection axis and without a property block of more
\* than 255 bytes
C4_SupportedKindsDecode ==
    (Classes \cap {"Morph", "SingleMesh", "SingleMorph"} = {} /\ ~MirrorWithoutAxis
        /\ expErr # "struct.error")
        => C4_EncodedTableDecodes

\* the bytes of the i-th written record after its header
Payload(i) ==
    LET o == expMarks[i].obj
        header == (IF o.object_type = ObjectType.VISUAL THEN 4 ELSE 1) + 2 + 40 + 5
                  + 1 + Len(o.name) + 1 + Len(o.properties)
    IN  SubSeq(expOut, expMarks[i].first + header + 1, expMarks[i].last)

StandardMeshFamily == {"StandardMesh", "Billboard", "SingleMesh", "Morph", "SingleMorph"}

\* the table positions of the family objects sharing the mesh data block of
\* the object at position i
Sharing(i) ==
    { j \in 1..Len(Table) :
        /\ Table[j].mesh.class \in StandardMeshFamily
        /\ expScene[Table[j].bl].data = expScene[Table[i].bl].data }

\* C5: once the object loop of a pass has ended, of the StandardMesh-family
\* objects sharing a mesh data block the first in table order is written with
\* instance index 0 and its LODs, every other one with nothing but the
\* owner's table position (smaller than its own) as instance index
\* (a billboard adds its axis fields).
C5_InstanceDedup ==
    expPc \in {"close", "done", "failed"} =>
        \A i \in 1..Len(Table) : Table[i].mesh.class \in StandardMeshFamily =>
            LET owner == CHOOSE j \in Sharing(i) : \A k \in Sharing(i) : j <= k
                tail == IF Table[i].mesh.class = "Billboard" THEN 5 ELSE 0
            IN  /\ i <= Len(expMarks)
                /\ IF i = owner
                   THEN /\ SubSeq(Payload(i), 1, 2) = LE(0, 2)
                        /\ Payload(i)[3] = 1 + Len(Table[i].mesh.lods)
                        /\ Len(Payload(i)) >= 3 + 11 * Payload(i)[3] + tail
                   ELSE /\ owner < i
                        /\ SubSeq(Payload(i), 1, 2) = LE(owner, 2)
                        /\ Len(Payload(i)) = 2 + tail

\* C5, for the passes that complete
C5_InstanceDedupWhenWritten == expPc # "failed" => C5_InstanceDedup

\* object a is below object b in the scene graph
RECURSIVE Below(_, _, _)
Below(a, b, fuel) ==
    /\ fuel > 0 /\ expScene[a].parent # 0
    /\ (expScene[a].parent = b \/ Below(expScene[a].parent, b, fuel - 1))

\* C6: after create_ls3d_objects the table is a strict pre-order of the scene
\* graph: no object twice, parent_index 0 for a root and else the 1-based
\* position of the scene parent, which is smaller than the object's own, and
\* every descendant in the table after its ancestor.
C6_TableIsPreOrder ==
    \A k \in 1..Len(Table) :
        LET b == Table[k].bl
            p == expScene[b].parent
        IN  /\ \A j \in 1..Len(Table) : Table[j].bl = b => j = k
            /\ IF p = 0 THEN Table[k].parent_index = 0
               ELSE /\ Table[k].parent_index \in 1..(k - 1)
                    /\ Table[Table[k].parent_index].bl = p
            /\ \A j \in 1..Len(Table) : Below(Table[j].bl, b, Len(expScene)) => j > k

C6_Witness ==
    /\ expPc = "materials"
    /\ Len(Table) = 3
    /\ Table[1].bl = 3 /\ Table[2].bl = 1 /\ Table[3].bl = 2
    /\ Table[2].parent_index = 1 /\ Table[3].parent_index = 2

\* C16 in a pass: an object whose property block has more than 255 bytes
\* ends export_4ds with struct.error, and the file ends with the object's
\* name: no byte of the property block, not its length either, was written
C16_ExportStopsBeforeString ==
    expErr = "struct.error" =>
        LET o == Table[Len(expMarks) + 1]
            name == write_presized_string(o.name).bytes
        IN  /\ expPc = "failed" /\ Len(o.properties) > 255
            /\ SubSeq(expOut, Len(expOut) - Len(name) + 1, Len(expOut)) = name

\* the table positions import_4ds has read from where export_4ds wrote them
ReadBack ==
    IF decPc \in {"create_bl_mat", "prepare_bone", "create_bl_obj", "terminator", "failed"}
    THEN { i \in 1..Len(decLib.Objects) :
             i <= Len(expMarks) /\ decLib.Objects[i].first = expMarks[i].first }
    ELSE {}

\* C17: read_objects applies to translation, rotation and scale the inverse
\* of the component permutation LS3DObject.export applies: decoding an
\* encoded object header yields the in-memory translation, rotation
\* quaternion (w, x, y, z) and scale the object was encoded from.
C17_TransformsDecoded ==
    \A i \in ReadBack :
        LET b == expMarks[i].obj.bl
        IN  /\ decLib.Objects[i].location.v = Location(b)
            /\ decLib.Objects[i].rotation.v = Rotation(b)
            /\ decLib.Objects[i].scale.v = Scale(b)

\* what the code does: the decoded fields are the tuples of the stream, in
\* stream order: (x, z, y) for translation and scale, (x, z, y, w) for the
\* rotation
C17_StreamOrderKept ==
    \A i \in ReadBack :
        LET b == expMarks[i].obj.bl
            r == decLib.Objects[i]
        IN  /\ r.location = Tuple(write_vector3(Location(b)))
            /\ r.rotation = Tuple(write_quaternion(Rotation(b)))
            /\ r.scale = Tuple(write_vector3(Scale(b)))
            /\ r.location.v = <<Location(b)[1], Location(b)[3], Location(b)[2]>>
            /\ r.rotation.v = <<Rotation(b)[2], Rotation(b)[4], Rotation(b)[3], Rotation(b)[1]>>

\* C18 on the encoder's side: every object record export_4ds writes has an
\* unknown field of four zero bytes
C18_Unk0WrittenZero ==
    \A i \in 1..Len(expMarks) :
        LET at == expMarks[i].first
                  + (IF expMarks[i].obj.object_type = ObjectType.VISUAL THEN 4 ELSE 1) + 42
        IN  SubSeq(expOut, at + 1, at + 4) = <<0, 0, 0, 0>>

\* the first child of scene object b that is flagged "is LOD", 0 without one
FirstLod(b) ==
    LET ls == SelectSeq(children(expScene, b), LAMBDA i : expScene[i].is_lod)
    IN  IF ls = <<>> THEN 0 ELSE Head(ls)

\* the LOD chain scene object b exposes: its first LOD child, the first LOD
\* child of that one, and so on
RECURSIVE LodPath(_)
LodPath(b) == IF FirstLod(b) = 0 THEN <<>> ELSE <<FirstLod(b)>> \o LodPath(FirstLod(b))

\* C19: LOD ownership is first-writer-wins.  At the end of the traversal the
\* LOD chain of the owner of a mesh data block is the chain of the first
\* object in table order, among the owner and its instances, that exposes a
\* non-empty one; no instance has a chain of its own; and the owner's record
\* is written with that many LODs after its own, an instance's with none.
C19_LodFirstWriterWins ==
    \A i \in 1..Len(Table) : Table[i].mesh.class \in StandardMeshFamily =>
        LET owner == CHOOSE j \in Sharing(i) : \A k \in Sharing(i) : j <= k
            exposing == { j \in Sharing(i) : LodPath(Table[j].bl) # <<>> }
            first == CHOOSE j \in exposing : \A k \in exposing : j <= k
        IN  /\ i # owner => Table[i].mesh.lods = <<>> /\ Table[i].mesh.instance_index = owner
            /\ Table[owner].mesh.lods =
                  IF exposing = {} THEN <<>> ELSE LodPath(Table[first].bl)
            /\ (i <= Len(expMarks) /\ i = owner) =>
                  Payload(i)[3] = 1 + Len(Table[owner].mesh.lods)
            /\ (i <= Len(expMarks) /\ i # owner) =>
                  Len(Payload(i)) = 2 + (IF Table[i].mesh.class = "Billboard" THEN 5 ELSE 0)

\* an owner with a chain of its own, a later instance with a longer chain,
\* and a still later one: the owner keeps its own
C19_Witness ==
    /\ expPc = "done"
    /\ Len(Table) = 3
    /\ Len(LodPath(Table[1].bl)) = 1 /\ Len(LodPath(Table[2].bl)) = 2
    /\ Len(LodPath(Table[3].bl)) = 1
    /\ Table[1].mesh.lods = LodPath(Table[1].bl)
    /\ Table[2].mesh.instance_index = 1 /\ Table[3].mesh.instance_index = 1

\* the owner has no chain, the second of its two instances exposes one: the
\* owner adopts it
C19_AdoptionWitness ==
    /\ expPc = "done"
    /\ Len(Table) = 3
    /\ LodPath(Table[1].bl) = <<>> /\ LodPath(Table[2].bl) = <<>>
    /\ Len(LodPath(Table[3].bl)) = 2
    /\ Table[1].mesh.lods = LodPath(Table[3].bl)

\* the LODs get_lods finds for scene object b
LodsFound(b) ==
    get_lods(expScene, children(expScene, b), 0,
             [lods |-> <<>>, children |-> <<>>, Materials |-> <<>>]).lods

\* the children of scene object b listed before its child c
ChildrenBefore(b, c) == SubSeq(children(expScene, b), 1, index(children(expScene, b), c))

\* one of the listed scene objects is flagged "is LOD"
LodAmong(list) == \E k \in 1..Len(list) : expScene[list[k]].is_lod

\* C20: the LOD chain get_lods finds for a StandardMesh-family object is a
\* single path.  Its first element is the first direct child flagged "is
\* LOD", each further element is the first child flagged "is LOD" of the
\* element before it, so there is one LOD per level, and the chain ends at
\* the first level without a child flagged "is LOD".  The chain is the one
\* stored for an object that is not an instance.
C20_LodChainIsSinglePath ==
    \A i \in 1..Len(Table) : Table[i].mesh.class \in StandardMeshFamily =>
        Let(LodsFound(Table[i].bl), LAMBDA lods :
            LET above(k) == IF k = 1 THEN Table[i].bl ELSE lods[k - 1]
                last == above(Len(lods) + 1)
            IN  /\ \A k \in 1..Len(lods) :
                     /\ expScene[lods[k]].is_lod
                     /\ expScene[lods[k]].parent = above(k)
                     /\ ~LodAmong(ChildrenBefore(above(k), lods[k]))
                /\ ~LodAmong(children(expScene, last))
                /\ Table[i].mesh.instance_index = 0 /\ lods # <<>>
                      => Table[i].mesh.lods = lods)

\* a chain two levels deep is found and stored
C20_Witness ==
    /\ expPc = "done"
    /\ \E i \in 1..Len(Table) :
          /\ Table[i].mesh.class \in StandardMeshFamily
          /\ Len(Table[i].mesh.lods) = 2
          /\ Table[i].mesh.lods = LodsFound(Table[i].bl)
          /\ expScene[Table[i].mesh.lods[2]].parent = Table[i].mesh.lods[1]

\* of two sibling children flagged "is LOD" only the first is in the chain
C20_SiblingWitness ==
    /\ expPc = "done"
    /\ \E i \in 1..Len(Table) :
          /\ Table[i].mesh.class \in StandardMeshFamily
          /\ Len(Table[i].mesh.lods) = 1
          /\ children(expScene, Table[i].bl) # <<>>
          /\ LodAmong(Tail(children(expScene, Table[i].bl)))
          /\ Table[i].mesh.lods[1] = Head(children(expScene, Table[i].bl))

\* the scene object c has an object record of its own in the table
HasRecord(c) == \E j \in 1..Len(Table) : Table[j].bl = c

\* C21: every direct child of a StandardMesh-family object the encoder
\* visits is a member of the object's LOD chain or gets an object record of
\* its own; no direct child is left out.
C21_EveryChildEncoded ==
    \A i \in 1..Len(Table) : Table[i].mesh.class \in StandardMeshFamily =>
        LET kids == children(expScene, Table[i].bl)
        IN  \A k \in 1..Len(kids) :
               In(kids[k], LodsFound(Table[i].bl)) \/ HasRecord(kids[k])

\* What export_4ds does for the direct children of a StandardMesh-family
\* object: a child not flagged "is LOD" gets a record whose parent is the
\* object; of the children flagged "is LOD" the first is in the chain and
\* every later one has no record and is in no chain.
C21_LaterLodChildrenDropped ==
    \A i \in 1..Len(Table) : Table[i].mesh.class \in StandardMeshFamily =>
        LET kids == children(expScene, Table[i].bl)
        IN  \A k \in 1..Len(kids) :
               IF ~expScene[kids[k]].is_lod
               THEN \E j \in 1..Len(Table) :
                       Table[j].bl = kids[k] /\ Table[j].parent_index = i
               ELSE /\ ~HasRecord(kids[k])
                    /\ In(kids[k], LodsFound(Table[i].bl))
                          <=> ~LodAmong(SubSeq(kids, 1, k - 1))
                    /\ \A j \in 1..Len(Table) : ~In(kids[k], Table[j].mesh.lods)
                          \/ ~LodAmong(SubSeq(kids, 1, k - 1))

\* the axis field and the boolean Billboard.write put at the end of the
\* record written for table position i
StoredAxis(i) == FromLE(SubSeq(expOut, expMarks[i].last - 4, expMarks[i].last - 1))
StoredBoolean(i) == expOut[expMarks[i].last] # 0

\* the billboards export_4ds wrote that import_4ds has read back
BillboardsRead ==
    { i \in ReadBack : expMarks[i].obj.mesh.class = "Billboard" }

\* C24: encoding a Billboard and decoding it reproduces its billboarding
\* setting, for X, Y, Z and XYZ.  The boolean stored after the axis is true
\* iff the setting is a single axis, and decode sets all_axis to the negation
\* of the stored boolean.
C24_BillboardRoundTrip ==
    \A i \in BillboardsRead :
        LET setting == expScene[expMarks[i].obj.bl].billboarding_axis
            mesh == decLib.Objects[i].mesh
        IN  /\ StoredBoolean(i) <=> setting \in {"X", "Y", "Z"}
            /\ mesh.all_axis <=> ~StoredBoolean(i)
            /\ mesh.axis = StoredAxis(i)
            /\ Billboard_billboarding_axis(mesh) = setting
            /\ (decScene.skeleton # <<>> /\ decScene.skeleton.bl[i] # None) =>
                  /\ decScene.skeleton.bl[i].billboarding_axis = setting
                  /\ decScene.skeleton.bl[i].mesh_type = "BILLBOARD"

\* a billboard of the given setting has been written, read back and its
\* bl_obj made
BillboardBuilt(setting) ==
    \E i \in BillboardsRead :
        /\ expScene[expMarks[i].obj.bl].billboarding_axis = setting
        /\ decScene.skeleton # <<>> /\ decScene.skeleton.bl[i] # None
        /\ decScene.skeleton.bl[i].billboarding_axis = setting

C24_Witness == BillboardBuilt("XYZ")

C24_WitnessX == BillboardBuilt("X")

C24_WitnessZ == BillboardBuilt("Z")

\* the sectors export_4ds wrote that import_4ds has read back
SectorsRead == { i \in ReadBack : expMarks[i].obj.mesh.class = "Sector" }

\* the portal object of the scene behind portal j of the sector at i
PortalObject(i, j) == expScene[expMarks[i].obj.mesh.portals[j].bl]

\* the positions of the vertices of the scene's portal object, in the order
\* of its first polygon
PortalLoop(i, j) ==
    LET loops == MeshData[PortalObject(i, j).data].faces[1].loops
    IN  [v \in 1..Len(loops) |-> Co(loops[v])]

\* portal j of the decoded sector at i has the flags, the two floats and the
\* vertex loop of the scene's portal object
PortalKept(i, j) ==
    LET props == PortalObject(i, j).portal_props
        portal == decLib.Objects[i].mesh.portals[j]
    IN  /\ flag_props(portal.flags, PortalFlagProps) = props.flags
        /\ portal.unk0 = props.unknown_a /\ portal.unk1 = props.unknown_b
        /\ portal.positions = PortalLoop(i, j)

\* the portal objects import_4ds has made for the sector at i carry what
\* was decoded
PortalsBuilt(i) ==
    /\ decScene.skeleton # <<>>
    /\ decScene.skeleton.bl[i] # None
    /\ Len(decScene.skeleton.portals[i]) = Len(decLib.Objects[i].mesh.portals)

\* C25: for every portal of a Sector, encoding then decoding preserves the
\* portal's flags (the known bits), its two float parameters, its RGBA
\* colour and its vertex loop, positions in order; only the plane normal and
\* the distance are recomputed.
C25_PortalRoundTrip ==
    \A i \in SectorsRead :
        /\ Len(decLib.Objects[i].mesh.portals) = Len(expMarks[i].obj.mesh.portals)
        /\ \A j \in 1..Len(expMarks[i].obj.mesh.portals) :
              /\ PortalKept(i, j)
              /\ decLib.Objects[i].mesh.portals[j].color = PortalObject(i, j).portal_props.color
              /\ PortalsBuilt(i) =>
                    decScene.skeleton.portals[i][j].portal_props = PortalObject(i, j).portal_props

\* What the code preserves: the flags, the two floats and the vertex loop;
\* the colour of every decoded portal is 0, 0, 0, 0, whatever the colour of
\* the portal object was.
C25_PortalColourDropped ==
    \A i \in SectorsRead :
        /\ Len(decLib.Objects[i].mesh.portals) = Len(expMarks[i].obj.mesh.portals)
        /\ \A j \in 1..Len(expMarks[i].obj.mesh.portals) :
              /\ PortalKept(i, j)
              /\ decLib.Objects[i].mesh.portals[j].color = <<0, 0, 0, 0>>
              /\ PortalsBuilt(i) =>
                    decScene.skeleton.portals[i][j].portal_props =
                       [PortalObject(i, j).portal_props EXCEPT !.color = <<0, 0, 0, 0>>]

\* the lines joined by CRLF, in order
RECURSIVE JoinedByCRLF(_)
JoinedByCRLF(lines) ==
    IF lines = <<>> THEN <<>>
    ELSE IF Len(lines) = 1 THEN lines[1]
    ELSE lines[1] \o <<13, 10>> \o JoinedByCRLF(Tail(lines))

\* the user defined properties of the scene object behind table position i
PropertyLines(i) == expScene[expMarks[i].obj.bl].user_defined_properties

\* the objects read back whose bl_obj import_4ds has made as a new object
\* (an instance starts as a copy, with the lines of the object it copies)
BuiltAnew ==
    { i \in ReadBack : /\ decScene.skeleton # <<>>
                       /\ decScene.skeleton.bl[i] # None
                       /\ decLib.Objects[i].mesh.instance_index < 0 }

\* C26: for every list of user defined property lines, empty lines at any
\* position, the encoder writes the lines joined by CRLF in order, and
\* splitting the block on decode yields the same list of lines.
C26_PropertyLinesRoundTrip ==
    \A i \in ReadBack :
        /\ expMarks[i].obj.properties = JoinedByCRLF(PropertyLines(i))
        /\ decLib.Objects[i].properties = JoinedByCRLF(PropertyLines(i))
        /\ splitlines(decLib.Objects[i].properties, <<>>, <<>>) = PropertyLines(i)
        /\ i \in BuiltAnew =>
              decScene.skeleton.bl[i].user_defined_properties = PropertyLines(i)

\* the lines without the empty lines at the front
RECURSIVE WithoutLeadingEmpty(_)
WithoutLeadingEmpty(lines) ==
    IF lines # <<>> /\ Head(lines) = <<>> THEN WithoutLeadingEmpty(Tail(lines)) ELSE lines

\* the lines without the last one if it is empty
WithoutLastEmpty(lines) ==
    IF lines # <<>> /\ lines[Len(lines)] = <<>> THEN SubSeq(lines, 1, Len(lines) - 1)
    ELSE lines

\* What the code does: the encoder puts no CRLF while the block is still
\* empty, so the empty lines at the front are not written; splitlines yields
\* no empty line after the last CRLF, so an empty last line is not decoded.
\* The other lines, empty ones between them included, come back in order.
C26_InnerLinesKept ==
    \A i \in ReadBack :
        LET written == WithoutLeadingEmpty(PropertyLines(i))
        IN  /\ expMarks[i].obj.properties = JoinedByCRLF(written)
            /\ decLib.Objects[i].properties = JoinedByCRLF(written)
            /\ splitlines(decLib.Objects[i].properties, <<>>, <<>>) = WithoutLastEmpty(written)
            /\ i \in BuiltAnew =>
                  decScene.skeleton.bl[i].user_defined_properties = WithoutLastEmpty(written)

\* the offset in the written file of the base LOD of the i-th written object:
\* behind the header, the two presized strings, the instance index and the
\* LOD count
LodStart(i) ==
    LET p == expMarks[i].first
        name == UIntAt(expOut, p + 51, 1)
        properties == UIntAt(expOut, p + 52 + name, 1)
    IN  p + 53 + name + properties + 3

\* k submesh records of the file f from offset q on, and the offset behind them
RECURSIVE SubmeshRecords(_, _, _)
SubmeshRecords(f, q, k) ==
    IF k = 0 THEN [recs |-> <<>>, end |-> q]
    ELSE LET face_count == UIntAt(f, q, 2)
             rec == [faces |-> [j \in 1..face_count |->
                                   Unpack(BytesAt(f, q + 2 + 6 * (j - 1), 6), 3, 2)],
                     mat |-> UIntAt(f, q + 2 + 6 * face_count, 2)]
         IN  Let(SubmeshRecords(f, q + 4 + 6 * face_count, k - 1), LAMBDA rest :
                 [recs |-> <<rec>> \o rest.recs, end |-> rest.end])

\* the LOD at offset l of the written file: the vertex array, the submesh
\* count byte, the records behind it and the offset behind them
LodAt(l) ==
    LET count == UIntAt(expOut, l + 8, 2)
        s == l + 10 + 32 * count
    IN  Let(SubmeshRecords(expOut, s + 1, UIntAt(expOut, s, 1)), LAMBDA r :
            [vertices |-> [k \in 1..count |->
                              [co |-> BytesAt(expOut, l + 10 + 32 * (k - 1), 12),
                               uv |-> Unpack(BytesAt(expOut, l + 34 + 32 * (k - 1), 8), 2, 4)]],
             submeshes_count |-> UIntAt(expOut, s, 1),
             recs |-> r.recs, end |-> r.end])

\* the base LOD of the i-th written object
Emitted(i) == LodAt(LodStart(i))

\* the written standard meshes with a UV layer, without LODs behind the base
UvMeshesWritten ==
    { i \in 1..Len(expMarks) :
        /\ expMarks[i].obj.mesh.class = "StandardMesh"
        /\ expMarks[i].obj.mesh.instance_index = 0
        /\ expMarks[i].obj.mesh.lods = <<>>
        /\ MeshData[expScene[expMarks[i].obj.bl].data].uv # <<>> }

\* the material slots some face of the mesh uses, and the faces of a slot, in
\* the mesh's order
UsedSlots(mesh) ==
    SelectSeq([m \in 1..(IF mesh.materials = <<>> THEN 1 ELSE Len(mesh.materials)) |-> m],
              LAMBDA m : \E k \in 1..Len(mesh.faces) : mesh.faces[k].material_index + 1 = m)
FacesOfSlot(mesh, m) ==
    SelectSeq([k \in 1..Len(mesh.faces) |-> k],
              LAMBDA k : mesh.faces[k].material_index + 1 = m)

\* C27: for a mesh with per-face-corner UVs the Standard LOD encoder emits a
\* vertex array and face indices such that every emitted corner index refers
\* to an emitted vertex with the corner's source vertex and the corner's UV
\* (the V written as 1 - v); every triangle stands once, in the record of its
\* material slot (slot 0 without materials), corners reversed; the submesh
\* count byte is the number of records that follow, which end the object.
C27_CornersKeepVertexAndUv ==
    \A i \in UvMeshesWritten :
        Let(Emitted(i), LAMBDA e :
            LET mesh == MeshData[expScene[expMarks[i].obj.bl].data]
                slots == UsedSlots(mesh)
            IN  /\ e.submeshes_count = Len(slots)
                /\ e.end = expMarks[i].last
                /\ \A r \in 1..Len(slots) :
                     LET fs == FacesOfSlot(mesh, slots[r])
                     IN  /\ Len(e.recs[r].faces) = Len(fs)
                         /\ \A j \in 1..Len(fs) : \A c \in 1..3 :
                              LET corner == e.recs[r].faces[j][4 - c]
                                  uv == mesh.uv[fs[j]][c]
                              IN  /\ corner < Len(e.vertices)
                                  /\ e.vertices[corner + 1].co
                                       = write_vector3(Co(mesh.faces[fs[j]].loops[c]))
                                  /\ e.vertices[corner + 1].uv = <<uv[1], OneMinus(uv[2])>>)

\* a written mesh of the data block d whose vertex array holds n vertices
EmittedVertices(d, n) ==
    /\ expPc = "done"
    /\ \E i \in UvMeshesWritten :
         /\ expScene[expMarks[i].obj.bl].data = d
         /\ Len(Emitted(i).vertices) = n

\* a vertex two faces use with different UVs was split: 5 vertices of 4
C27_Witness == EmittedVertices(2, 5)
\* a vertex met a third time, its first copy carrying another UV, is added
\* again: 6 vertices of 4
C27_ThirdCopyWitness == EmittedVertices(4, 6)
\* without materials both faces stand in the one record of slot 0, and the
\* shared corners are reused: 4 vertices of 4
C27_NoMaterialsWitness ==
    /\ EmittedVertices(3, 4)
    /\ \E i \in UvMeshesWritten :
         /\ expScene[expMarks[i].obj.bl].data = 3
         /\ Len(Emitted(i).recs) = 1 /\ Len(Emitted(i).recs[1].faces) = 2

\* n LODs of the written file from offset l on, one behind the other
RECURSIVE LodsWritten(_, _)
LodsWritten(l, n) ==
    IF n = 0 THEN <<>>
    ELSE Let(LodAt(l), LAMBDA e : <<e>> \o LodsWritten(e.end, n - 1))

\* the written owners of a mesh: the objects whose record holds LODs
OwnersWritten ==
    { i \in 1..Len(expMarks) :
        /\ expMarks[i].obj.mesh.class \in {"StandardMesh", "Billboard", "SingleMesh", "SingleMorph"}
        /\ expMarks[i].obj.mesh.instance_index = 0 }

LensesWritten == { i \in 1..Len(expMarks) : expMarks[i].obj.mesh.class = "Lens" }

\* the material index of the j-th lens record of the i-th written object
LensIndex(i, j) == UIntAt(expOut, LodStart(i) - 3 + 1 + 10 * (j - 1) + 8, 2)

\* the index k written for the material mat (0: none) denotes it in the table
Denotes(k, mat) ==
    IF mat = 0 THEN k = 0
    ELSE k \in 1..Len(expLib.Materials) /\ expLib.Materials[k] = mat

\* the submesh records of a written LOD carry, in slot order, the table
\* index of the material of their slot, 0 for a mesh without materials
SubmeshIndices(e, mesh) ==
    /\ Len(e.recs) = Len(UsedSlots(mesh))
    /\ \A r \in 1..Len(e.recs) :
         Denotes(e.recs[r].mat,
                 IF mesh.materials = <<>> THEN 0 ELSE mesh.materials[UsedSlots(mesh)[r]])

\* C28: after the encode traversal the material table holds no material
\* twice, and every material index written in a submesh record (of a base
\* mesh or of a LOD of a written chain) or in a lens record is 0 for no
\* material, or lies in 1..material count and denotes the material of the
\* record's slot or lens.
C28_MaterialIndicesDenote ==
    /\ expPc \in {"materials", "objects", "close"} =>
         \A j, k \in 1..Len(expLib.Materials) :
             expLib.Materials[j] = expLib.Materials[k] => j = k
    /\ expPc = "close" =>
         /\ \A i \in OwnersWritten :
              LET obj == expMarks[i].obj
              IN  Let(LodsWritten(LodStart(i), 1 + Len(obj.mesh.lods)), LAMBDA ls :
                      /\ SubmeshIndices(ls[1], MeshData[expScene[obj.bl].data])
                      /\ \A n \in 1..Len(obj.mesh.lods) :
                           SubmeshIndices(ls[n + 1], MeshData[expScene[obj.mesh.lods[n]].data]))
         /\ \A i \in LensesWritten :
              \A j \in 1..Len(expScene[expMarks[i].obj.bl].lenses) :
                  Denotes(LensIndex(i, j), expScene[expMarks[i].obj.bl].lenses[j])

\* a lens and a mesh were written that share a material of a table of two
C28_Witness ==
    /\ expPc = "close"
    /\ Len(expLib.Materials) = 2
    /\ \E i \in LensesWritten : LensIndex(i, 1) = 1
    /\ \E i \in OwnersWritten : \E r \in 1..Len(Emitted(i).recs) : Emitted(i).recs[r].mat = 1
\* a LOD of a written chain names a material its base mesh does not use
C28_LodWitness ==
    /\ expPc = "close"
    /\ \E i \in OwnersWritten :
         /\ expMarks[i].obj.mesh.lods # <<>>
         /\ Let(LodsWritten(LodStart(i), 2), LAMBDA ls :
                \E r \in 1..Len(ls[2].recs) :
                    \A q \in 1..Len(ls[1].recs) : ls[2].recs[r].mat # ls[1].recs[q].mat)

----------------------------------------------------------------------------
(* Passes in sequence.  class Libraries is one object for the lifetime of  *)
(* the add-on: a pass finds in it what the passes before it left.          *)

\* the tables export_4ds assigns and deletes
ExportTables == {"Materials", "Objects", "MeshInstances", "MeshInstancesParents"}

\* class Libraries as it is now: what the last import_4ds left, overlaid
\* with the tables of the export_4ds begun since then (assigned at its
\* reset, deleted by its del statements)
Libraries ==
    IF expLib # <<>>
    THEN [decLib EXCEPT !.Materials = expLib.Materials, !.Objects = expLib.Objects,
                        !.MeshInstances = expLib.MeshInstances,
                        !.MeshInstancesParents = expLib.MeshInstancesParents,
                        !.assigned = @ \cup ExportTables]
    ELSE IF expPc = "done"
    THEN [decLib EXCEPT !.Materials = <<>>, !.Objects = <<>>, !.MeshInstances = <<>>,
                        !.MeshInstancesParents = <<>>, !.assigned = @ \ ExportTables]
    ELSE decLib

\* no pass is running: none was started, or the last one returned or raised
NoPass == decPc \in {"idle", "done", "failed"} /\ expPc \in {"idle", "done", "failed"}

\* the files of the sequences: two that decode (no object, with and without
\* a material), two whose decode is aborted in the creation stage, one cut
\* inside the object table
PassFiles ==
    { <<b, Damage("none", 0, 0, 0)>> : b \in {1, 15, 16, 17} }
    \cup { <<1, Damage("cut", Len(WFFile(WFSamples[1])) - 2, 0, 0)>> }

\* the scenes of the sequences: one object of each kind a user can set up
PassScenes == { s \in Scenes : Len(s) = 1 }

PassInit ==
    /\ decIn = <<>> /\ decFile = <<>> /\ decCur = <<>> /\ decPc = "idle"
    /\ decLib = Unset /\ decScene = <<>>
    /\ PrimIdle /\ MatIdle /\ ExpIdle /\ SlotIdle

\* the user runs File > Import > 4DS: import_4ds(filepath) is entered with
\* class Libraries as the earlier passes left it
StartImport ==
    /\ NoPass
    /\ \E f \in PassFiles :
          /\ decIn' = [base |-> f[1], damage |-> f[2]]
          /\ decFile' = Damaged(WFFile(WFSamples[f[1]]), f[2])
    /\ decCur' = Cursor(0)
    /\ decPc' = "signature"
    /\ decLib' = Libraries
    /\ decScene' = EmptyScene
    /\ expScene' = <<>> /\ expPc' = "idle" /\ expLib' = <<>> /\ expOut' = <<>>
    /\ expMarks' = <<>> /\ expErr' = ""
    /\ UNCHANGED <<primVars, matVars, slotVars>>

\* the user runs File > Export > 4DS: export_4ds(filepath) is entered with
\* class Libraries as the earlier passes left it
StartExport ==
    /\ NoPass
    /\ expScene' \in PassScenes
    /\ expPc' = "header"
    /\ expLib' = <<>> /\ expOut' = <<>> /\ expMarks' = <<>> /\ expErr' = ""
    /\ decLib' = Libraries
    /\ decIn' = <<>> /\ decFile' = <<>> /\ decCur' = <<>> /\ decPc' = "idle"
    /\ decScene' = <<>>
    /\ UNCHANGED <<primVars, matVars, slotVars>>

PassNext == StartImport \/ StartExport \/ DecNext \/ ExpNext

SpecPasses == PassInit /\ [][PassNext]_vars

\* a pass has just been entered: no statement of it has run
PassStarts == decPc = "signature" \/ expPc = "header"

\* C13: in any sequence of import_4ds and export_4ds passes, also after a
\* pass that was aborted by an error, every pass starts with empty material,
\* object, joint and mesh-instance tables and without a synthetic root
\* skeleton: class Libraries holds nothing an earlier pass registered.
C13_PassStartsClean ==
    PassStarts =>
        /\ Libraries.Materials = <<>> /\ Libraries.Objects = <<>>
        /\ Libraries.Joints = <<>> /\ Libraries.MeshInstances = <<>>
        /\ Libraries.MeshInstancesParents = <<>>
        /\ Libraries.WorldArmature = FALSE

\* what the code guarantees: a pass that runs to its end leaves class
\* Libraries without the tables it assigned, and a pass reads a table only
\* after it has assigned a new list to it
C13_CompletedPassTearsDown ==
    /\ decPc = "done" => /\ Libraries.assigned \cap {"Materials", "Objects", "Joints"} = {}
                         /\ Libraries.WorldArmature = FALSE
    /\ expPc = "done" => Libraries.assigned \cap ExportTables = {}
    /\ decPc \in {"create_bl_mat", "prepare_bone", "create_bl_obj", "terminator"} =>
          {"Materials", "Objects", "Joints"} \subseteq decLib.assigned

----------------------------------------------------------------------------
(* The slot operators (ls3d_object.py, ls3d_lens.py, ls3d_target.py): add   *)
(* and remove on the three slot lists of the active object.                *)

\* the most slots add() makes in one list
MaxAdds == 3

\* the slot lists of LS3DObjectProperties and the IntProperty holding the
\* active index of each
ActiveIndexOf ==
    [user_defined_properties |-> "active_property_index",
     lenses |-> "active_lens_index",
     targets |-> "active_target_index"]

SlotLists == DOMAIN ActiveIndexOf

\* collection.remove(key): the item at index key (counted from 0) is taken
\* out; a key outside the collection removes nothing
collection_remove(items, key) ==
    IF key \in 0..(Len(items) - 1)
    THEN SubSeq(items, 1, key) \o SubSeq(items, key + 2, Len(items))
    ELSE items

\* execute of an add operator: collection.add(), active index = len - 1
add_slot(props, list, slot) ==
    LET items == Append(props[list], slot)
    IN  [props EXCEPT ![list] = items, ![ActiveIndexOf[list]] = Len(items) - 1]

\* faulty variant: the active index is left as it is after the removal
remove_slot_unclamped(props, list) ==
    [props EXCEPT ![list] = collection_remove(props[list], props[ActiveIndexOf[list]])]

\* execute of a remove operator: collection.remove(active index), then the
\* active index is brought below the length and to 0 at least
remove_slot(props, list) ==
    LET active == props[ActiveIndexOf[list]]
        items == collection_remove(props[list], active)
        below == IF active >= Len(items) THEN Len(items) - 1 ELSE active
    IN  [props EXCEPT ![list] = items,
                      ![ActiveIndexOf[list]] = IF below < 0 THEN 0 ELSE below]

\* an object as Blender makes it: empty collections, IntProperty() defaults
SlotInit ==
    /\ ls3d_props = [user_defined_properties |-> <<>>, active_property_index |-> 0,
                     lenses |-> <<>>, active_lens_index |-> 0,
                     targets |-> <<>>, active_target_index |-> 0]
    /\ slotIds = [l \in SlotLists |-> 0]
    /\ PrimIdle /\ MatIdle /\ DecIdle /\ ExpIdle

AddTo(list) ==
    /\ slotIds[list] < MaxAdds
    /\ ls3d_props' = add_slot(ls3d_props, list, slotIds[list] + 1)
    /\ slotIds' = [slotIds EXCEPT ![list] = @ + 1]
    /\ UNCHANGED nonSlotVars

RemoveFrom(list) ==
    /\ ls3d_props' = remove_slot(ls3d_props, list)
    /\ UNCHANGED <<slotIds, nonSlotVars>>

LS3DAddProperty == AddTo("user_defined_properties")
LS3DRemoveProperty == RemoveFrom("user_defined_properties")
LS3DAddLens == AddTo("lenses")
LS3DRemoveLens == RemoveFrom("lenses")
LS3DAddTarget == AddTo("targets")
LS3DRemoveTarget == RemoveFrom("targets")

\* row.template_list(..., props, list, props, active index): a click on a
\* row of the list makes it the active one
template_list ==
    \E list \in SlotLists : \E row \in 0..(Len(ls3d_props[list]) - 1) :
        /\ row # ls3d_props[ActiveIndexOf[list]]
        /\ ls3d_props' = [ls3d_props EXCEPT ![ActiveIndexOf[list]] = row]
        /\ UNCHANGED <<slotIds, nonSlotVars>>

SlotNext ==
    \/ LS3DAddProperty \/ LS3DRemoveProperty \/ LS3DAddLens \/ LS3DRemoveLens
    \/ LS3DAddTarget \/ LS3DRemoveTarget \/ template_list

SpecSlots == SlotInit /\ [][SlotNext]_vars

----------------------------------------------------------------------------
(* Properties of the slot operators                                        *)

\* 0 <= active index <= max(0, list length - 1)
ActiveInRange(list) ==
    LET active == ls3d_props[ActiveIndexOf[list]]
        last == Len(ls3d_props[list]) - 1
    IN  0 <= active /\ active <= (IF last > 0 THEN last ELSE 0)

\* the step leaves the other lists and their active indices as they are
OthersKept(list) ==
    \A l \in SlotLists \ {list} :
        /\ ls3d_props'[l] = ls3d_props[l]
        /\ ls3d_props'[ActiveIndexOf[l]] = ls3d_props[ActiveIndexOf[l]]

\* the step appends one slot, a new one, to the list and makes it active
Appended(list) ==
    LET items == ls3d_props[list]
    IN  /\ Len(ls3d_props'[list]) = Len(items) + 1
        /\ SubSeq(ls3d_props'[list], 1, Len(items)) = items
        /\ \A i \in 1..Len(items) : items[i] # ls3d_props'[list][Len(items) + 1]
        /\ ls3d_props'[ActiveIndexOf[list]] = Len(items)
        /\ OthersKept(list)

\* the step deletes the active slot of the list and no other, or nothing
\* when the list is empty
ActiveDeleted(list) ==
    LET items == ls3d_props[list]
        active == ls3d_props[ActiveIndexOf[list]]
    IN  /\ IF items = <<>> THEN ls3d_props'[list] = <<>>
           ELSE /\ Len(ls3d_props'[list]) = Len(items) - 1
                /\ \A i \in 1..Len(items) :
                      i # active + 1 =>
                          ls3d_props'[list][IF i <= active THEN i ELSE i - 1] = items[i]
        /\ OthersKept(list)

SlotSteps ==
    /\ LS3DAddProperty => Appended("user_defined_properties")
    /\ LS3DAddLens => Appended("lenses")
    /\ LS3DAddTarget => Appended("targets")
    /\ LS3DRemoveProperty => ActiveDeleted("user_defined_properties")
    /\ LS3DRemoveLens => ActiveDeleted("lenses")
    /\ LS3DRemoveTarget => ActiveDeleted("targets")

\* C30: for each of the three slot lists (user defined properties, lenses,
\* targets), after any sequence of add and remove executions the active
\* index satisfies 0 <= active index <= max(0, list length - 1); add appends
\* one slot and makes it active, and remove deletes only the active slot, or
\* nothing on an empty list.
C30_ActiveIndexInRange ==
    /\ [](\A list \in SlotLists : ActiveInRange(list))
    /\ [][SlotSteps]_vars

\* the slot in the middle of three was removed: the active index stays and
\* names the slot that followed
C30_Witness ==
    /\ ls3d_props # <<>>
    /\ ls3d_props.lenses = <<1, 3>> /\ ls3d_props.active_lens_index = 1
\* the last slot of a list was removed: the active index moved down with it
C30_LastRemovedWitness ==
    /\ ls3d_props # <<>>
    /\ slotIds.targets = 2
    /\ ls3d_props.targets = <<1>> /\ ls3d_props.active_target_index = 0
\* the only slot was removed: the list is empty and the active index 0
C30_EmptiedWitness ==
    /\ ls3d_props # <<>>
    /\ slotIds.user_defined_properties = 1
    /\ ls3d_props.user_defined_properties = <<>> /\ ls3d_props.active_property_index = 0

====
